---- MODULE Spec2Model ----
(***************************************************************************)
(* Model of the SRT transcription front end (src/app.py): the in-memory    *)
(* job registry (st.session_state.jobs), the status poll                   *)
(* (refresh_status_once / update_job), the artifact persister              *)
(* (save_transcription_assets), the library bootstrap                      *)
(* (list_existing_transcriptions) and the object store they write to.      *)
(*                                                                         *)
(* Representation.                                                         *)
(*  - File names, storage keys, job ids and s3:// URIs are Python strings  *)
(*    on which the code does character work (splitext, rsplit, strip,      *)
(*    isalnum); they are sequences of one-character strings.  Fixed        *)
(*    literals of the code on which no character work can cut inside       *)
(*    ("Srt-model", "transcriptions", "meta.json", a job id issued by the  *)
(*    compute endpoint, the hex digits of a uuid) are single tokens.       *)
(*  - JSON values on which the code tests the type (isinstance) or the     *)
(*    truth value carry a tag: PyNone, PyStr, PyNum, PyDict.               *)
(*  - A Python dict is a function from its keys (strings).                 *)
(*  - An object body is [kind, val]: json.dumps(...).encode() of a JSON    *)
(*    value v is [kind |-> "json", val |-> v], bytes that do not parse     *)
(*    are [kind |-> "corrupt"], text bodies are [kind |-> "text"].         *)
(***************************************************************************)
EXTENDS Integers, Sequences, FiniteSets, TLC

(***************************************************************************)
(* Tagged Python values                                                    *)
(***************************************************************************)
PyNone == [t |-> "None"]
PyStr(s) == [t |-> "str", v |-> s]
PyNum(n) == [t |-> "num", v |-> n]
PyDict(d) == [t |-> "dict", v |-> d]
PyList(l) == [t |-> "list", v |-> l]

EmptyDict == <<>>

IsStr(x) == x.t = "str"
IsDict(x) == x.t = "dict"

\* bool(x) of a tagged value
Truthy(x) ==
  CASE x.t = "None" -> FALSE
    [] x.t = "str"  -> x.v # ""
    [] x.t = "num"  -> x.v # 0
    [] x.t = "dict" -> DOMAIN x.v # {}
    [] x.t = "list" -> x.v # <<>>

\* d.get(k) of a dict whose values are tagged
DictGet(d, k) == IF k \in DOMAIN d THEN d[k] ELSE PyNone

\* d with d[k] = v
DictPut(d, k, v) == [x \in DOMAIN d \cup {k} |-> IF x = k THEN v ELSE d[x]]

\* s.strip() of a text is empty: the texts of the model that are all blanks
BlankTexts == {"", " "}
StripIsEmpty(s) == s \in BlankTexts

(***************************************************************************)
(* Character strings                                                       *)
(***************************************************************************)
LowerChars == {"a", "b", "m"}
UpperChars == {"A"}
DigitChars == {"1"}
NonAsciiLetters == {"é"}
HexTokens == {"h1", "h2"}
JobIdTokens == {"J0", "J1", "J2", "J3", "J4", "J5", "J6"}

\* str.isalnum() of one character (true of every Unicode letter and digit)
IsAlnum(c) ==
  c \in LowerChars \cup UpperChars \cup DigitChars \cup NonAsciiLetters
        \cup HexTokens \cup JobIdTokens

\* the largest and the smallest member of a set of positions; 0 when empty
MaxOr0(S) == IF S = {} THEN 0 ELSE CHOOSE i \in S : \A k \in S : k <= i
MinOr0(S) == IF S = {} THEN 0 ELSE CHOOSE i \in S : \A k \in S : i <= k

\* the positions of s that hold c
Positions(s, c) == {i \in 1..Len(s) : s[i] = c}

\* s.rfind(c) and s.find(c), 1-based; 0 when c does not occur
RFind(s, c) == MaxOr0(Positions(s, c))
Find(s, c) == MinOr0(Positions(s, c))

StartsWith(s, p) == Len(p) <= Len(s) /\ SubSeq(s, 1, Len(p)) = p
EndsWith(s, p) == Len(p) <= Len(s) /\ SubSeq(s, Len(s) - Len(p) + 1, Len(s)) = p

\* s[:i-1] and s[i+1:] for a 1-based position i; the whole of s when i = 0
Before(s, i) == IF i = 0 THEN s ELSE SubSeq(s, 1, i - 1)
After(s, i) == IF i = 0 THEN s ELSE SubSeq(s, i + 1, Len(s))

\* s.rsplit(c, 1)[0] and s.rsplit(c, 1)[-1]
RSplitHead(s, c) == Before(s, RFind(s, c))
RSplitLast(s, c) == After(s, RFind(s, c))

\* s.split(c)[-1]
SplitLast(s, c) == After(s, RFind(s, c))

\* the position of the n-th c of s; 0 when s holds fewer
NthPosition(P, n) ==
  IF Cardinality(P) < n THEN 0
  ELSE CHOOSE i \in P : Cardinality({k \in P : k <= i}) = n

\* s.split(c, n)[-1]: what follows the n-th c, or the last c when s holds
\* fewer than n
SplitMaxLastAt(s, P, n) ==
  IF P = {} THEN s
  ELSE IF Cardinality(P) < n THEN After(s, MaxOr0(P))
  ELSE After(s, NthPosition(P, n))
SplitMaxLast(s, c, n) == SplitMaxLastAt(s, Positions(s, c), n)

\* s.strip(chars): from the first to the last character not in chars
KeptPositions(s, chars) == {i \in 1..Len(s) : s[i] \notin chars}
StripAt(s, K) == IF K = {} THEN <<>> ELSE SubSeq(s, MinOr0(K), MaxOr0(K))
Strip(s, chars) == StripAt(s, KeptPositions(s, chars))

\* s.lstrip(chars)
LStripAt(s, K) == IF K = {} THEN <<>> ELSE SubSeq(s, MinOr0(K), Len(s))
LStrip(s, chars) == LStripAt(s, KeptPositions(s, chars))

\* s.lower(), on the characters of the model
Lower(s) == [i \in 1..Len(s) |-> IF s[i] = "A" THEN "a" ELSE s[i]]

\* s.replace(a, b) for single characters
ReplaceChar(s, a, b) == [i \in 1..Len(s) |-> IF s[i] = a THEN b ELSE s[i]]

\* genericpath._splitext: the index of the dot that starts the extension, 0 if
\* there is none.  The dot must lie after the last "/" and some character
\* between that "/" and the dot must not be a dot.
SplitExtDotAt(p, sepIndex, dotIndex) ==
  IF dotIndex > sepIndex
     /\ \E k \in (sepIndex + 1)..(dotIndex - 1) : p[k] # "."
  THEN dotIndex ELSE 0
SplitExtDot(p) == SplitExtDotAt(p, RFind(p, "/"), RFind(p, "."))

\* os.path.splitext(p)[0] and os.path.splitext(p)[1]
SplitExtRoot(p) == Before(p, SplitExtDot(p))
ExtFrom(p, d) == IF d = 0 THEN <<>> ELSE SubSeq(p, d, Len(p))
SplitExtExt(p) == ExtFrom(p, SplitExtDot(p))

\* os.path.basename(p)
PathBasename(p) == SubSeq(p, RFind(p, "/") + 1, Len(p))

(***************************************************************************)
(* Configuration and storage layout                                        *)
(***************************************************************************)
S3_BUCKET == "bucket"
ROOT_PREFIX == <<"Srt-model", "/">>
UPLOAD_PREFIX == ROOT_PREFIX \o <<"uploads", "/">>
TRANSCRIPTIONS_PREFIX == ROOT_PREFIX \o <<"transcriptions", "/">>
FEEDBACK_PREFIX == ROOT_PREFIX \o <<"feedback", "/">>
LEGACY_PREFIX == <<"transcriptions", "/">>

\* f"s3://{S3_BUCKET}/{key}"
S3Uri(key) == <<"s3:", "/", "/", S3_BUCKET, "/">> \o key

\* the statuses on which the code persists and stops polling
TerminalStatuses == {"COMPLETED", "FAILED", "CANCELLED"}

(***************************************************************************)
(* The object store: a function from the keys that exist to their bodies.  *)
(***************************************************************************)
JsonDumps(v) == [kind |-> "json", val |-> v]
TextBody(s) == [kind |-> "text", val |-> s]
CorruptBody == [kind |-> "corrupt", val |-> PyNone]

\* s3_upload_client.put_object(Key=key, Body=body) on store st
PutObject(st, key, body) ==
  [k \in DOMAIN st \cup {key} |-> IF k = key THEN body ELSE st[k]]

\* bytes -> parsed JSON; {} when the bytes do not parse
_safe_json_load(b) == IF b.kind = "json" THEN b.val ELSE PyDict(EmptyDict)

\* get_object + _safe_json_load; {} when the key is missing or the read fails
_read_s3_json(st, key, readOk) ==
  IF readOk /\ key \in DOMAIN st THEN _safe_json_load(st[key]) ELSE PyDict(EmptyDict)

(***************************************************************************)
(* Slugs.  u is the draw of uuid.uuid4().hex[:8] the call makes when the   *)
(* sanitised name is empty.                                                *)
(***************************************************************************)
Sanitise(s) == [i \in 1..Len(s) |-> IF IsAlnum(s[i]) \/ s[i] \in {"-", "_"} THEN s[i] ELSE "-"]

\* `base or fallback`
OrElse(base, fallback) == IF base # <<>> THEN base ELSE fallback

\* a faulty variant: every slug ends with the random draw
_slugify_name_unique(name, u) ==
  OrElse(Strip(Sanitise(SplitExtRoot(name)), {"-", "_"}), <<"f", "i", "l", "e">>)
    \o <<"-", u>>

\* a faulty variant: the fallback is the bare random draw
_slugify_name_bare_fallback(name, u) ==
  OrElse(Strip(Sanitise(SplitExtRoot(name)), {"-", "_"}), <<u>>)

_slugify_name(name, u) ==
  OrElse(Strip(Sanitise(SplitExtRoot(name)), {"-", "_"}),
         <<"f", "i", "l", "e", "-", u>>)

_slugify_user(name, u) ==
  OrElse(Strip(Sanitise(OrElse(name, <<"u", "s", "e", "r">>)), {"-", "_"}),
         <<"u", "s", "e", "r", "-", u>>)

(***************************************************************************)
(* Artifact persister: save_transcription_assets.                          *)
(* output is the dict the caller passes ({} when the poll's output is not  *)
(* a dict).  SaveWrites is the list of put_object calls in program order.  *)
(***************************************************************************)
TextLen(x) == IF IsStr(x) THEN Len(x.v) ELSE 0

\* a faulty variant: the text is not stripped before the test
NonEmptyText_unstripped(output, k) ==
  /\ k \in DOMAIN output
  /\ IsStr(output[k])
  /\ output[k].v # ""

\* isinstance(output.get(k), str) and output[k].strip()
NonEmptyText(output, k) ==
  /\ k \in DOMAIN output
  /\ IsStr(output[k])
  /\ ~StripIsEmpty(output[k].v)

SaveBaseDir(job_id, filename, u) ==
  TRANSCRIPTIONS_PREFIX \o _slugify_name(filename, u) \o <<"_">> \o job_id

SaveMeta(job_id, filename, job_record, output, options) ==
  [job_id        |-> job_id,
   filename      |-> filename,
   created_at    |-> job_record.created_at,
   status        |-> job_record.status,
   source_bucket |-> job_record.bucket,
   source_key    |-> job_record.key,
   options       |-> options,
   sizes         |-> [txt_len |-> TextLen(DictGet(output, "txt")),
                      srt_len |-> TextLen(DictGet(output, "srt"))]]

\* the put_object calls of one invocation, in program order
WritesAt(base_dir, basename, meta, output) ==
  << [name |-> "meta", key |-> base_dir \o <<"/", "meta.json">>,
      body |-> JsonDumps(PyDict(meta))],
     [name |-> "output_json", key |-> base_dir \o <<"/", "output.json">>,
      body |-> JsonDumps(PyDict(output))] >>
  \o (IF NonEmptyText(output, "srt")
      THEN << [name |-> "srt", key |-> base_dir \o <<"/">> \o basename \o <<".", "srt">>,
               body |-> TextBody(output["srt"].v)] >>
      ELSE <<>>)
  \o (IF NonEmptyText(output, "txt")
      THEN << [name |-> "txt", key |-> base_dir \o <<"/">> \o basename \o <<".", "txt">>,
               body |-> TextBody(output["txt"].v)] >>
      ELSE <<>>)

SaveWrites(job_id, filename, job_record, output, options, u) ==
  WritesAt(SaveBaseDir(job_id, filename, u), SplitExtRoot(filename),
           SaveMeta(job_id, filename, job_record, output, options), output)

\* the store after the first n writes of ws, put in order (a later write to
\* the same key replaces an earlier one)
ApplyWrites(st, ws, n) ==
  [k \in DOMAIN st \cup {ws[i].key : i \in 1..n} |->
     IF \E i \in 1..n : ws[i].key = k
     THEN ws[CHOOSE i \in 1..n : ws[i].key = k /\ \A m \in (i + 1)..n : ws[m].key # k].body
     ELSE st[k]]

\* a faulty variant: `written` lists all four artifacts, written or not
WrittenAfter_all_names(ws, n) ==
  [nm \in {"meta", "output_json", "srt", "txt"} |->
     IF \E i \in 1..n : ws[i].name = nm
     THEN S3Uri(ws[CHOOSE i \in 1..n : ws[i].name = nm].key)
     ELSE S3Uri(RSplitHead(ws[1].key, "/") \o <<"/", nm>>)]

\* the dict `written` after the first n writes of ws
WrittenAfter(ws, n) ==
  [nm \in {ws[i].name : i \in 1..n} |->
     S3Uri(ws[CHOOSE i \in 1..n : ws[i].name = nm].key)]

\* The effect of the call that makes the writes ws.  failAt = k (1 <= k <=
\* number of writes) makes the k-th put_object raise: the writes before it
\* are in the store, the exception leaves the function and nothing is
\* returned.  Any other failAt: no write fails and `written` is returned.
Written(ws, done, raised) ==
  IF raised THEN PyNone ELSE PyDict(WrittenAfter(ws, done))

SaveEffect(st, ws, failAt) ==
  [store   |-> ApplyWrites(st, ws, IF failAt \in 1..Len(ws) THEN failAt - 1 ELSE Len(ws)),
   raised  |-> failAt \in 1..Len(ws),
   put     |-> {ws[i].key : i \in 1..(IF failAt \in 1..Len(ws) THEN failAt - 1 ELSE Len(ws))},
   written |-> Written(ws, Len(ws), failAt \in 1..Len(ws))]

save_transcription_assets(st, job_id, filename, job_record, output, options, u, failAt) ==
  SaveEffect(st, SaveWrites(job_id, filename, job_record, output, options, u), failAt)

(***************************************************************************)
(* Job registry: st.session_state.jobs, a dict from job id to job record.  *)
(* Every record carries the keys record_job writes; the records the        *)
(* bootstrap inserts have no "pending_options" key, which every reader     *)
(* takes with .get(), so it reads as None.                                 *)
(***************************************************************************)
NoJobs == <<>>

\* a faulty variant: the new record takes the endpoint's first status
record_job_in_queue(js, job_id, filename, bucket, key, now) ==
  [j \in DOMAIN js \cup {job_id} |->
     IF j = job_id
     THEN [filename        |-> filename,
           bucket          |-> bucket,
           key             |-> key,
           status          |-> "IN_QUEUE",
           output          |-> PyNone,
           created_at      |-> now,
           saved_paths     |-> PyNone,
           pending_options |-> PyNone]
     ELSE js[j]]

record_job(js, job_id, filename, bucket, key, now) ==
  [j \in DOMAIN js \cup {job_id} |->
     IF j = job_id
     THEN [filename        |-> filename,
           bucket          |-> bucket,
           key             |-> key,
           status          |-> "QUEUED",
           output          |-> PyNone,
           created_at      |-> now,
           saved_paths     |-> PyNone,
           pending_options |-> PyNone]
     ELSE js[j]]

\* a faulty variant: without the membership test, an unknown job id gets a
\* record
update_job_without_test(js, job_id, status, output) ==
  IF job_id \in DOMAIN js
  THEN [js EXCEPT ![job_id].status = status, ![job_id].output = output]
  ELSE [j \in DOMAIN js \cup {job_id} |->
          IF j = job_id
          THEN [filename |-> <<>>, bucket |-> S3_BUCKET, key |-> <<>>,
                status |-> status, output |-> output, created_at |-> 0,
                saved_paths |-> PyNone, pending_options |-> PyNone]
          ELSE js[j]]

update_job(js, job_id, status, output) ==
  IF job_id \in DOMAIN js
  THEN [js EXCEPT ![job_id].status = status, ![job_id].output = output]
  ELSE js

(***************************************************************************)
(* One status poll: refresh_status_once.                                   *)
(* resp is the outcome of the GET: resp.fail names what went wrong before  *)
(* the body was usable ("none" when nothing did); resp.status is <<>> when *)
(* the body has no "status" key, else <<s>>; resp.output is the body's     *)
(* "output" (PyNone when missing).  u and failAt are the persister's uuid  *)
(* draw and failing write.                                                 *)
(* The result holds the new registry and store, what the function returns  *)
(* ("data" or "None"), whether st.warning was shown, and what the          *)
(* persister did.                                                          *)
(***************************************************************************)
\* a faulty variant: persists whether or not saved_paths is set
ShouldPersist_ignoring_saved_paths(js, job_id) == job_id \in DOMAIN js

\* line 435: job and not job.get("saved_paths")
ShouldPersist(js, job_id) ==
  /\ job_id \in DOMAIN js
  /\ ~Truthy(js[job_id].saved_paths)

\* a faulty variant: every status but the two running ones counts as terminal
PollIsTerminal_not_running(status) == status \notin {"QUEUED", "IN_PROGRESS"}

\* line 433: status in ("COMPLETED", "FAILED", "CANCELLED")
PollIsTerminal(status) == status \in TerminalStatuses

\* line 428: data.get("status", "UNKNOWN"); line 429: data.get("output") or {}
PollStatus(resp) == IF resp.status = <<>> THEN "UNKNOWN" ELSE resp.status[1]
PollOutput(resp) == IF Truthy(resp.output) THEN resp.output ELSE PyDict(EmptyDict)

\* a faulty variant: a failed request is recorded as status UNKNOWN
PollFailed_marks_unknown(js, st, job_id) ==
  [jobs |-> update_job(js, job_id, "UNKNOWN", PyDict(EmptyDict)), store |-> st,
   ret |-> "None", warned |-> FALSE, persister |-> "not called", put |-> {}]

\* a faulty variant: a failed request marks the job FAILED
PollFailed_marks_failed(js, st, job_id) ==
  [jobs |-> update_job(js, job_id, "FAILED", PyDict(EmptyDict)), store |-> st,
   ret |-> "None", warned |-> FALSE, persister |-> "not called", put |-> {}]

\* lines 450-451: the request, raise_for_status or r.json() raised
PollFailed(js, st, job_id) ==
  [jobs |-> js, store |-> st, ret |-> "None", warned |-> FALSE,
   persister |-> "not called", put |-> {}]

\* a faulty variant: a failed write marks the job FAILED
PersistRaised_marks_failed(js1, job_id, r) ==
  [jobs |-> [js1 EXCEPT ![job_id].status = "FAILED"], store |-> r.store,
   ret |-> "data", warned |-> TRUE, persister |-> "raised", put |-> r.put]

\* a faulty variant: a failed write records the locations written so far
PersistRaised_sets_saved_paths(js1, job_id, r) ==
  [jobs |-> [js1 EXCEPT ![job_id].saved_paths =
               PyDict([k \in r.put |-> S3Uri(k)])],
   store |-> r.store, ret |-> "data", warned |-> TRUE,
   persister |-> "raised", put |-> r.put]

\* lines 446-449: the persister raised; r is what it did before
PersistRaised(js1, job_id, r) ==
  [jobs |-> js1, store |-> r.store, ret |-> "data", warned |-> TRUE,
   persister |-> "raised", put |-> r.put]

\* lines 445, 449: the persister returned `written`
PersistReturned(js1, job_id, r) ==
  [jobs |-> [js1 EXCEPT ![job_id].saved_paths = r.written],
   store |-> r.store, ret |-> "data", warned |-> FALSE,
   persister |-> "returned", put |-> r.put]

\* lines 436-449: what follows the call of the persister, r being its effect
Persisted(js1, job_id, r) ==
  IF r.raised
  THEN PersistRaised(js1, job_id, r)
  ELSE PersistReturned(js1, job_id, r)

\* line 437: job.get("pending_options") or {}
OptionsOf(job) ==
  IF Truthy(job.pending_options) THEN job.pending_options.v ELSE EmptyDict

\* line 442: out if isinstance(out, dict) else {}
DictOrEmpty(out) == IF IsDict(out) THEN out.v ELSE EmptyDict

\* lines 433-449: js1 is the registry after update_job
AfterUpdate(js1, st, job_id, status, out, u, failAt) ==
  IF PollIsTerminal(status) /\ ShouldPersist(js1, job_id)
  THEN Persisted(js1, job_id,
                 save_transcription_assets(st, job_id, js1[job_id].filename, js1[job_id],
                                           DictOrEmpty(out), OptionsOf(js1[job_id]),
                                           u, failAt))
  ELSE [jobs |-> js1, store |-> st, ret |-> "data", warned |-> FALSE,
        persister |-> "not called", put |-> {}]

refresh_status_once(js, st, job_id, resp, u, failAt) ==
  IF resp.fail # "none"
  THEN PollFailed(js, st, job_id)
  ELSE AfterUpdate(update_job(js, job_id, PollStatus(resp), PollOutput(resp)),
                   st, job_id, PollStatus(resp), PollOutput(resp), u, failAt)

(***************************************************************************)
(* Library bootstrap: list_existing_transcriptions.                        *)
(***************************************************************************)
\* The order of list_objects_v2: keys ascending by their bytes.  Tokens are
\* ranked by their first byte (and then by the rest); a uuid's hex digits
\* are ranked among the digits.
ByteOrder ==
  << " ", "(", ")", "-", ".", "/", "1", "h1", "h2", "A", "J0", "J1", "J2", "J3",
     "J4", "J5", "J6",
     "Srt-model", "_", "a", "b", "e", "f", "feedback", "i", "l", "m",
     "meta.json", "output.json", "r", "s", "srt", "transcriptions", "txt",
     "u", "uploads", "é" >>

Code(c) == CHOOSE i \in 1..Len(ByteOrder) : ByteOrder[i] = c

RECURSIVE KeyLess(_, _)
KeyLess(a, b) ==
  IF a = <<>> THEN b # <<>>
  ELSE IF b = <<>> THEN FALSE
  ELSE IF Head(a) = Head(b) THEN KeyLess(Tail(a), Tail(b))
  ELSE Code(Head(a)) < Code(Head(b))

RECURSIVE SortKeys(_)
SortKeys(S) ==
  IF S = {} THEN <<>>
  ELSE LET m == CHOOSE k \in S : \A o \in S \ {k} : KeyLess(k, o)
       IN  <<m>> \o SortKeys(S \ {m})

\* paginator.paginate(Prefix=prefix): the keys under the prefix, in order
ListObjects(st, prefix) == SortKeys({k \in DOMAIN st : StartsWith(k, prefix)})

_basename_from_filename(filename) == SplitExtRoot(PathBasename(filename))

\* a faulty variant: the extension of the file name is kept
_saved_paths_keeping_extension(base_dir, filename) ==
  [meta        |-> S3Uri(base_dir \o <<"/", "meta.json">>),
   output_json |-> S3Uri(base_dir \o <<"/", "output.json">>),
   srt         |-> S3Uri(base_dir \o <<"/">> \o PathBasename(filename) \o <<".", "srt">>),
   txt         |-> S3Uri(base_dir \o <<"/">> \o PathBasename(filename) \o <<".", "txt">>)]

_saved_paths_from_base_dir(base_dir, filename) ==
  LET basename == _basename_from_filename(filename)
  IN  [meta        |-> S3Uri(base_dir \o <<"/", "meta.json">>),
       output_json |-> S3Uri(base_dir \o <<"/", "output.json">>),
       srt         |-> S3Uri(base_dir \o <<"/">> \o basename \o <<".", "srt">>),
       txt         |-> S3Uri(base_dir \o <<"/">> \o basename \o <<".", "txt">>)]

_key_from_uri(uri) ==
  IF StartsWith(uri, <<"s3:", "/", "/">>) THEN SplitMaxLast(uri, "/", 3) ELSE uri

\* obj["LastModified"].timestamp() of an object found at start-up: objects
\* found then were written before the session's clock started.
LastModifiedAtStart(key) == 0

\* The record the loop body builds from a parsed meta (a dict).
\* a faulty variant: the file name is always taken from the directory name
BootRecord_filename_from_dir(meta, base_dir, key) ==
  [filename        |-> SplitLast(base_dir, "/"),
   bucket          |-> IF "source_bucket" \in DOMAIN meta THEN meta.source_bucket ELSE S3_BUCKET,
   key             |-> IF "source_key" \in DOMAIN meta THEN meta.source_key ELSE <<>>,
   status          |-> IF "status" \in DOMAIN meta THEN meta.status ELSE "COMPLETED",
   output          |-> PyNone,
   created_at      |-> IF "created_at" \in DOMAIN meta /\ meta.created_at # 0
                       THEN meta.created_at ELSE LastModifiedAtStart(key),
   saved_paths     |-> PyDict(_saved_paths_from_base_dir(base_dir, SplitLast(base_dir, "/"))),
   pending_options |-> PyNone]

\* a faulty variant: the record is inserted without saved_paths
BootRecord_without_saved_paths(meta, base_dir, key) ==
  [filename        |-> IF "filename" \in DOMAIN meta /\ meta.filename # <<>>
                       THEN meta.filename ELSE SplitLast(base_dir, "/"),
   bucket          |-> IF "source_bucket" \in DOMAIN meta THEN meta.source_bucket ELSE S3_BUCKET,
   key             |-> IF "source_key" \in DOMAIN meta THEN meta.source_key ELSE <<>>,
   status          |-> IF "status" \in DOMAIN meta THEN meta.status ELSE "COMPLETED",
   output          |-> PyNone,
   created_at      |-> IF "created_at" \in DOMAIN meta /\ meta.created_at # 0
                       THEN meta.created_at ELSE LastModifiedAtStart(key),
   saved_paths     |-> PyNone,
   pending_options |-> PyNone]

BootRecord(meta, base_dir, key) ==
  LET filename == IF "filename" \in DOMAIN meta /\ meta.filename # <<>>
                  THEN meta.filename ELSE SplitLast(base_dir, "/")
  IN  [filename        |-> filename,
       bucket          |-> IF "source_bucket" \in DOMAIN meta THEN meta.source_bucket ELSE S3_BUCKET,
       key             |-> IF "source_key" \in DOMAIN meta THEN meta.source_key ELSE <<>>,
       status          |-> IF "status" \in DOMAIN meta THEN meta.status ELSE "COMPLETED",
       output          |-> PyNone,
       created_at      |-> IF "created_at" \in DOMAIN meta /\ meta.created_at # 0
                           THEN meta.created_at ELSE LastModifiedAtStart(key),
       saved_paths     |-> PyDict(_saved_paths_from_base_dir(base_dir, filename)),
       pending_options |-> PyNone]

BootJobId(meta, base_dir) ==
  IF "job_id" \in DOMAIN meta /\ meta.job_id # <<>>
  THEN meta.job_id ELSE RSplitLast(base_dir, "_")

\* a faulty variant: the loop never looks at the limit
RECURSIVE ScanKeys_without_limit(_, _, _, _, _, _)
ScanKeys_without_limit(st, keys, i, unreadable, limit, acc) ==
  IF i > Len(keys) \/ acc.stop # "no" THEN acc
  ELSE
    LET key      == keys[i]
        base_dir == RSplitHead(key, "/")
        meta     == _read_s3_json(st, key, key \notin unreadable)
        next     ==
          IF ~EndsWith(key, <<"/", "meta.json">>) THEN acc
          ELSE IF ~Truthy(meta) THEN acc
          ELSE IF ~IsDict(meta) THEN [acc EXCEPT !.stop = "raised"]
          ELSE [jobs |-> [j \in DOMAIN acc.jobs \cup {BootJobId(meta.v, base_dir)} |->
                            IF j = BootJobId(meta.v, base_dir)
                            THEN BootRecord(meta.v, base_dir, key) ELSE acc.jobs[j]],
                seen |-> acc.seen + 1,
                stop |-> "no"]
    IN  ScanKeys_without_limit(st, keys, i + 1, unreadable, limit, next)

\* a faulty variant: a job id that is in the registry already is kept
RECURSIVE ScanKeys_first_wins(_, _, _, _, _, _)
ScanKeys_first_wins(st, keys, i, unreadable, limit, acc) ==
  IF i > Len(keys) \/ acc.stop # "no" THEN acc
  ELSE
    LET key      == keys[i]
        base_dir == RSplitHead(key, "/")
        meta     == _read_s3_json(st, key, key \notin unreadable)
        next     ==
          IF ~EndsWith(key, <<"/", "meta.json">>) THEN acc
          ELSE IF ~Truthy(meta) THEN acc
          ELSE IF ~IsDict(meta) THEN [acc EXCEPT !.stop = "raised"]
          ELSE [jobs |-> [j \in DOMAIN acc.jobs \cup {BootJobId(meta.v, base_dir)} |->
                            IF j \in DOMAIN acc.jobs THEN acc.jobs[j]
                            ELSE BootRecord(meta.v, base_dir, key)],
                seen |-> acc.seen + 1,
                stop |-> IF acc.seen + 1 >= limit THEN "limit" ELSE "no"]
    IN  ScanKeys_first_wins(st, keys, i + 1, unreadable, limit, next)

\* One pass of the loop body over keys[i..]; acc = [jobs, seen, stop] where
\* stop is "no", "limit" (the return at seen >= limit) or "raised" (an
\* exception left the function: meta parsed to a truthy value with no .get).
RECURSIVE ScanKeys(_, _, _, _, _, _)
ScanKeys(st, keys, i, unreadable, limit, acc) ==
  IF i > Len(keys) \/ acc.stop # "no" THEN acc
  ELSE
    LET key      == keys[i]
        base_dir == RSplitHead(key, "/")
        meta     == _read_s3_json(st, key, key \notin unreadable)
        next     ==
          IF ~EndsWith(key, <<"/", "meta.json">>) THEN acc
          ELSE IF ~Truthy(meta) THEN acc
          ELSE IF ~IsDict(meta) THEN [acc EXCEPT !.stop = "raised"]
          ELSE LET job_id == BootJobId(meta.v, base_dir)
                   rec    == BootRecord(meta.v, base_dir, key)
               IN  [jobs |-> [j \in DOMAIN acc.jobs \cup {job_id} |->
                                IF j = job_id THEN rec ELSE acc.jobs[j]],
                    seen |-> acc.seen + 1,
                    stop |-> IF acc.seen + 1 >= limit THEN "limit" ELSE "no"]
    IN  ScanKeys(st, keys, i + 1, unreadable, limit, next)

\* listOk = FALSE: the listing itself raises before any page is seen.
list_existing_transcriptions(js, st, limit, unreadable, listOk) ==
  IF ~listOk THEN [jobs |-> js, seen |-> 0, stop |-> "raised"]
  ELSE ScanKeys(st,
                ListObjects(st, TRANSCRIPTIONS_PREFIX) \o ListObjects(st, LEGACY_PREFIX),
                1, unreadable, limit, [jobs |-> js, seen |-> 0, stop |-> "no"])

(***************************************************************************)
(* Inputs of the model                                                     *)
(***************************************************************************)
MaxSubmits == 1
MaxPolls == 2

FileNames == { <<"a", ".", "m">> }
EditorNames == { <<"e">> }

FullOutput == [txt |-> PyStr("hello"), srt |-> PyStr("1 hello")]

\* what the body of a status response can carry
RespStatuses ==
  { <<>>, <<"QUEUED">>, <<"IN_PROGRESS">>, <<"COMPLETED">>, <<"FAILED">>,
    <<"CANCELLED">>, <<"IN_QUEUE">> }
RespOutputs == { PyNone, PyDict(FullOutput) }
FailKinds == { "network", "badjson" }

Responses ==
  { [fail |-> f, status |-> <<>>, output |-> PyNone] : f \in FailKinds }
  \cup { [fail |-> "none", status |-> s, output |-> o] :
           s \in RespStatuses, o \in RespOutputs }

\* the failing write of a persister call: none, the first (nothing is
\* written), the third (meta.json and output.json are written)
FailPoints == {0, 1, 3}

\* the uuid draws of the session's persister calls
SessionDraws == {"h1"}

\* a job persisted by an earlier session
OldJobId == <<"J0">>
OldFileName == <<"a", ".", "m">>
OldRecord ==
  [filename |-> OldFileName, bucket |-> S3_BUCKET,
   key |-> UPLOAD_PREFIX \o <<"u0", "_">> \o OldFileName,
   status |-> "COMPLETED", output |-> PyDict(FullOutput), created_at |-> 0,
   saved_paths |-> PyNone, pending_options |-> PyNone]

EmptyStore == <<>>
SeedStore ==
  save_transcription_assets(EmptyStore, OldJobId, OldFileName, OldRecord,
                            FullOutput, EmptyDict, "h1", 0).store
InitStores == { EmptyStore, SeedStore }

\* the id the compute endpoint issues for the n-th submission of the session
IssuedId(n) == << "J" \o ToString(n) >>
\* the uuid4 of the n-th upload of the session
UploadUuid(n) == "u" \o ToString(n)

NoResp == [fail |-> "none", status |-> <<>>, output |-> PyNone]

NoLast ==
  [op |-> "none", job |-> <<>>, resp |-> NoResp, ret |-> "None", warned |-> FALSE,
   persister |-> "not called", put |-> {}, submit |-> "none"]

(***************************************************************************)
(* State                                                                   *)
(***************************************************************************)
VARIABLES
  jobs,               \* st.session_state.jobs
  store,              \* the bucket: key -> body
  view,               \* st.session_state.view
  active_job,         \* st.session_state.active_job (<<>> = None)
  UPLOADED_FILE,      \* the name in st.session_state.UPLOADED_FILE (<<>> = None)
  RUNPOD_OBJECT_KEY,  \* st.session_state.RUNPOD_OBJECT_KEY (<<>> = None)
  bootstrapped,       \* "bootstrapped" in st.session_state
  pc,                 \* position in the run of details_main_area
  out,                \* the local `out` of details_main_area
  clock,              \* time.time(), counted in submissions
  uploads,            \* objects uploaded in this session
  polls,              \* status polls made in this session
  last,               \* what the last handler did (history)
  call,               \* the arguments of a function called on its own
  result              \* what that call gave

vars == << jobs, store, view, active_job, UPLOADED_FILE, RUNPOD_OBJECT_KEY,
           bootstrapped, pc, out, clock, uploads, polls, last,
           call, result >>

\* the variables of the calls made on their own: the session leaves them alone
pureVars == << call, result >>
NoCall == [fn |-> "none"]
NoResult == [fn |-> "none"]

\* the session's variables, as the script's first lines leave them
SessionStart ==
  /\ jobs = NoJobs
  /\ view = "home"
  /\ active_job = <<>>
  /\ UPLOADED_FILE = <<>>
  /\ RUNPOD_OBJECT_KEY = <<>>
  /\ bootstrapped = FALSE
  /\ pc = "idle"
  /\ out = PyNone
  /\ clock = 1
  /\ uploads = 0
  /\ polls = 0
  /\ last = NoLast

sessionVars == << jobs, store, view, active_job, UPLOADED_FILE, RUNPOD_OBJECT_KEY,
                  bootstrapped, pc, out, clock, uploads, polls, last >>

NoLocal == PyNone

Init ==
  /\ SessionStart
  /\ store \in InitStores
  /\ call = NoCall
  /\ result = NoResult

(***************************************************************************)
(* Start-up: the first run of the script bootstraps the library            *)
(* (try: list_existing_transcriptions() finally: bootstrapped = True).     *)
(***************************************************************************)
ScanLimit == 1000

MetaKeys(st) == {k \in DOMAIN st : EndsWith(k, <<"/", "meta.json">>)}

Bootstrap ==
  /\ ~bootstrapped
  /\ \E listOk \in BOOLEAN :
     \E unreadable \in {{}} \cup {{k} : k \in MetaKeys(store)} :
       LET r == list_existing_transcriptions(jobs, store, ScanLimit, unreadable, listOk)
       IN  /\ jobs' = r.jobs
           /\ last' = [NoLast EXCEPT !.op = "bootstrap",
                                     !.ret = IF r.stop = "raised" THEN "raised" ELSE "None"]
  /\ bootstrapped' = TRUE
  /\ UNCHANGED << store, view, active_job, UPLOADED_FILE, RUNPOD_OBJECT_KEY,
                  pc, out, clock, uploads, polls >>

(***************************************************************************)
(* Home page                                                               *)
(***************************************************************************)
\* the file uploader holds a file: UPLOADED_FILE = (bytes, name)
ChooseFile ==
  /\ bootstrapped /\ pc = "idle" /\ view = "home"
  /\ \E f \in FileNames : UPLOADED_FILE' = f
  /\ last' = NoLast
  /\ UNCHANGED << jobs, store, view, active_job, RUNPOD_OBJECT_KEY, bootstrapped,
                  pc, out, clock, uploads, polls >>

\* upload_audio_and_get_paths: the key of the uploaded object
UploadKey(original_filename, uuid) ==
  UPLOAD_PREFIX \o <<uuid, "_">>
    \o ReplaceChar(ReplaceChar(original_filename, "/", "_"), "\\", "_")

AudioBody == [kind |-> "audio", val |-> PyNone]

\* resp.get("id") or resp.get("jobId") or resp.get("job_id") of the submit
\* response: <<>> when none of them is there
SubmitOutcomes == {"raised", "no id", "id"}

\* the extension of a path as build_payload takes it
ExtName(p) == Lower(LStrip(SplitExtExt(p), {"."}))

\* build_payload(_bucket, _key, _filename_for_ext)
build_payload(bucket, key, filename) ==
  [bucket |-> bucket, key |-> key,
   extension |-> IF OrElse(ExtName(filename), ExtName(key)) = <<"w", "a", "v">>
                 THEN "wav" ELSE "mp3",
   language |-> "en", vad_filter |-> TRUE, max_words_per_line |-> 7,
   generate_srt |-> "True", generate_txt |-> "True"]

\* the record run_and_store leaves for a job id the endpoint gave
Recorded(js1, job_id, payload, editor) ==
  [jobs |-> [js1 EXCEPT ![job_id].pending_options =
               PyDict([language |-> payload.language,
                       vad_filter |-> payload.vad_filter,
                       max_words_per_line |-> payload.max_words_per_line,
                       generate_srt |-> payload.generate_srt,
                       generate_txt |-> payload.generate_txt,
                       extension |-> payload.extension,
                       editor_name |-> editor])],
   active_job |-> job_id, view |-> "detail", shown |-> "none", recorded |-> TRUE]

\* a faulty variant: without the early return, a response without a job id
\* still opens the detail view
run_and_store_without_return(js, active, vw, submit, filename, payload, editor, now) ==
  IF submit = "raised"
  THEN [jobs |-> js, active_job |-> active, view |-> vw, shown |-> "error", recorded |-> FALSE]
  ELSE IF submit = "no id"
  THEN [jobs |-> js, active_job |-> active, view |-> "detail", shown |-> "warning",
        recorded |-> FALSE]
  ELSE
    Recorded(record_job(js, IssuedId(now), filename, payload.bucket, payload.key, now),
             IssuedId(now), payload, editor)

\* run_and_store(payload, filename_for_list): js, the active job and the view
\* after it.  submit = "raised": submit_job raised (caught by the caller).
run_and_store(js, active, vw, submit, filename, payload, editor, now) ==
  IF submit = "raised"
  THEN [jobs |-> js, active_job |-> active, view |-> vw, shown |-> "error", recorded |-> FALSE]
  ELSE IF submit = "no id"
  THEN [jobs |-> js, active_job |-> active, view |-> vw, shown |-> "warning", recorded |-> FALSE]
  ELSE
    Recorded(record_job(js, IssuedId(now), filename, payload.bucket, payload.key, now),
             IssuedId(now), payload, editor)

\* "Upload & Transcribe": upload the chosen file, submit, record the job.
UploadAndTranscribe ==
  /\ bootstrapped /\ pc = "idle" /\ view = "home"
  /\ UPLOADED_FILE # <<>>
  /\ uploads < MaxSubmits /\ clock <= MaxSubmits
  /\ \E editor \in EditorNames, uploadOk \in BOOLEAN, submit \in SubmitOutcomes :
       IF ~uploadOk
       THEN /\ last' = [NoLast EXCEPT !.op = "upload", !.ret = "error"]
            /\ UNCHANGED << jobs, store, view, active_job, RUNPOD_OBJECT_KEY, clock, uploads >>
       ELSE
         LET key == UploadKey(UPLOADED_FILE, UploadUuid(uploads + 1))
             r   == run_and_store(jobs, active_job, view, submit, UPLOADED_FILE,
                                  build_payload(S3_BUCKET, key, UPLOADED_FILE),
                                  editor, clock)
         IN  /\ store' = PutObject(store, key, AudioBody)
             /\ uploads' = uploads + 1
             /\ RUNPOD_OBJECT_KEY' = key
             /\ jobs' = r.jobs
             /\ active_job' = r.active_job
             /\ view' = r.view
             /\ clock' = IF r.recorded THEN clock + 1 ELSE clock
             /\ last' = [NoLast EXCEPT !.op = "submit", !.ret = r.shown, !.submit = submit,
                                       !.job = IF r.recorded THEN r.active_job ELSE <<>>]
  /\ UNCHANGED << UPLOADED_FILE, bootstrapped, pc, out, polls >>

\* "Regenerate Transcript": submit the last uploaded object again.
Regenerate ==
  /\ bootstrapped /\ pc = "idle" /\ view = "home"
  /\ RUNPOD_OBJECT_KEY # <<>>
  /\ clock <= MaxSubmits
  /\ \E editor \in EditorNames, submit \in SubmitOutcomes :
       LET filename == IF UPLOADED_FILE # <<>> THEN UPLOADED_FILE
                       ELSE PathBasename(RUNPOD_OBJECT_KEY)
           r == run_and_store(jobs, active_job, view, submit, filename,
                              build_payload(S3_BUCKET, RUNPOD_OBJECT_KEY, filename),
                              editor, clock)
       IN  /\ jobs' = r.jobs
           /\ active_job' = r.active_job
           /\ view' = r.view
           /\ clock' = IF r.recorded THEN clock + 1 ELSE clock
           /\ last' = [NoLast EXCEPT !.op = "submit", !.ret = r.shown, !.submit = submit,
                                     !.job = IF r.recorded THEN r.active_job ELSE <<>>]
  /\ UNCHANGED << store, UPLOADED_FILE, RUNPOD_OBJECT_KEY, bootstrapped, pc, out, uploads,
                  polls >>

(***************************************************************************)
(* Navigation                                                              *)
(***************************************************************************)
\* a button of sidebar_file_library
SelectJob ==
  /\ bootstrapped /\ pc = "idle"
  /\ \E j \in DOMAIN jobs : active_job' = j
  /\ view' = "detail"
  /\ last' = NoLast
  /\ UNCHANGED << jobs, store, UPLOADED_FILE, RUNPOD_OBJECT_KEY, bootstrapped,
                  pc, out, clock, uploads, polls >>

\* lines 704-706: the back button at the top of the detail page, which the
\* run reaches after the lazy load and before the poll
BackToHome ==
  /\ pc = "poll"
  /\ view' = "home"
  /\ pc' = "idle"
  /\ out' = NoLocal
  /\ last' = NoLast
  /\ UNCHANGED << jobs, store, active_job, UPLOADED_FILE, RUNPOD_OBJECT_KEY,
                  bootstrapped, clock, uploads, polls >>

(***************************************************************************)
(* Detail page: one run of details_main_area, in three steps.              *)
(***************************************************************************)
\* `if not out:` block: load output.json through saved_paths.  Gives the new
\* local out; the registry's output is set to it when something was loaded.
LazyLoaded(job, st, readOk) ==
  LET saved == IF Truthy(job.saved_paths) THEN job.saved_paths.v ELSE EmptyDict
  IN  IF "output_json" \in DOMAIN saved
      THEN _read_s3_json(st, _key_from_uri(saved["output_json"]), readOk)
      ELSE PyDict(EmptyDict)

\* lines 661-680: read the record, lazy-load the output
DetailsLoad ==
  /\ bootstrapped /\ pc = "idle" /\ view = "detail"
  /\ active_job # <<>> /\ active_job \in DOMAIN jobs
  /\ \E readOk \in BOOLEAN :
       LET job    == jobs[active_job]
           out0   == IF Truthy(job.output) THEN job.output ELSE PyDict(EmptyDict)
           loaded == LazyLoaded(job, store, readOk)
       IN  IF ~Truthy(out0) /\ Truthy(loaded)
           THEN /\ out' = loaded
                /\ jobs' = [jobs EXCEPT ![active_job].output = loaded]
           ELSE /\ out' = out0
                /\ UNCHANGED jobs
  /\ pc' = "poll"
  /\ last' = NoLast
  /\ UNCHANGED << store, view, active_job, UPLOADED_FILE, RUNPOD_OBJECT_KEY,
                  bootstrapped, clock, uploads, polls >>

\* the session after a poll whose effect is r
Polled(r, resp) ==
  /\ jobs' = r.jobs
  /\ store' = r.store
  /\ last' = [op |-> "poll", job |-> active_job, resp |-> resp, ret |-> r.ret,
              warned |-> r.warned, persister |-> r.persister, put |-> r.put,
              submit |-> "none"]

\* line 712: _ = refresh_status_once(job_id)
Poll ==
  /\ pc = "poll"
  /\ polls < MaxPolls
  /\ \E resp \in Responses, u \in SessionDraws, failAt \in FailPoints :
       Polled(refresh_status_once(jobs, store, active_job, resp, u, failAt), resp)
  /\ pc' = "post"
  /\ polls' = polls + 1
  /\ UNCHANGED << view, active_job, UPLOADED_FILE, RUNPOD_OBJECT_KEY, bootstrapped,
                  out, clock, uploads >>

\* lines 713-809: rerun while the job is not terminal; else lazy-load again
\* and render.  home = the "Back to Home" button at the bottom was clicked.
DetailsRender ==
  /\ pc = "post"
  /\ \E readOk \in BOOLEAN, home \in BOOLEAN :
       LET job    == jobs[active_job]
           loaded == LazyLoaded(job, store, readOk)
       IN  IF job.status \notin TerminalStatuses
           THEN UNCHANGED << jobs, view >>
           ELSE /\ jobs' = IF ~Truthy(out) /\ Truthy(loaded)
                           THEN [jobs EXCEPT ![active_job].output = loaded]
                           ELSE jobs
                /\ view' = IF home THEN "home" ELSE view
  /\ pc' = "idle"
  /\ out' = NoLocal
  /\ last' = NoLast
  /\ UNCHANGED << store, active_job, UPLOADED_FILE, RUNPOD_OBJECT_KEY, bootstrapped,
                  clock, uploads, polls >>

Next ==
  \/ Bootstrap /\ UNCHANGED pureVars
  \/ ChooseFile /\ UNCHANGED pureVars
  \/ UploadAndTranscribe /\ UNCHANGED pureVars
  \/ Regenerate /\ UNCHANGED pureVars
  \/ SelectJob /\ UNCHANGED pureVars
  \/ BackToHome /\ UNCHANGED pureVars
  \/ DetailsLoad /\ UNCHANGED pureVars
  \/ Poll /\ UNCHANGED pureVars
  \/ DetailsRender /\ UNCHANGED pureVars

Spec == Init /\ [][Next]_vars

(***************************************************************************)
(* The persister called on its own, twice with the same arguments: the     *)
(* two calls differ only in the uuid draws u1 and u2.  The first call      *)
(* writes to an empty store, the second to the store the first one left.   *)
(***************************************************************************)
PersistFileNames ==
  { <<"a", ".", "m">>, <<"A", " ", "b", ".", "m">>, <<"é", ".", "m">>,
    <<".", "m">>, <<"-", ".", "m">>, <<>> }
PersistJobIds == { <<"J1">>, <<"J2">> }
PersistStatuses == { "COMPLETED", "FAILED" }
PersistOutputs ==
  { EmptyDict, FullOutput, [txt |-> PyStr(" "), srt |-> PyNone] }

PersistCalls ==
  { [fn |-> "save_transcription_assets", job_id |-> j, filename |-> f,
     status |-> s, output |-> o, u1 |-> a, u2 |-> b] :
      j \in PersistJobIds, f \in PersistFileNames, s \in PersistStatuses,
      o \in PersistOutputs, a \in HexTokens, b \in HexTokens }

\* the job record the caller passes
PersistRecord(c) ==
  [filename |-> c.filename, bucket |-> S3_BUCKET,
   key |-> UPLOAD_PREFIX \o <<"u1", "_">> \o c.filename,
   status |-> c.status, output |-> PyDict(c.output), created_at |-> 1,
   saved_paths |-> PyNone, pending_options |-> PyNone]

SaveCall(st, c, u) ==
  save_transcription_assets(st, c.job_id, c.filename, PersistRecord(c), c.output,
                            EmptyDict, u, 0)

SecondCall(c, r1) ==
  [fn |-> "save_transcription_assets", first |-> r1,
   second |-> SaveCall(r1.store, c, c.u2)]

InitPersist ==
  /\ SessionStart
  /\ store = EmptyStore
  /\ call \in PersistCalls
  /\ result = NoResult

PersistTwice ==
  /\ call.fn = "save_transcription_assets"
  /\ result = NoResult
  /\ result' = SecondCall(call, SaveCall(EmptyStore, call, call.u1))
  /\ UNCHANGED << sessionVars, call >>

PersistNext == PersistTwice

PersistSpec == InitPersist /\ [][PersistNext]_vars

(***************************************************************************)
(* Properties                                                              *)
(***************************************************************************)
\* a step of the model is a status poll
PollStep == pc = "poll" /\ pc' = "post"

\* the keys a saved_paths value names (none when it is None)
MappingKeys(sp) ==
  IF IsDict(sp) THEN {_key_from_uri(sp.v[n]) : n \in DOMAIN sp.v} ELSE {}
MappingSize(sp) == IF IsDict(sp) THEN Cardinality(DOMAIN sp.v) ELSE 0

\* the artifact objects of a store
ArtifactKeys(st) ==
  {k \in DOMAIN st : StartsWith(k, TRANSCRIPTIONS_PREFIX) \/ StartsWith(k, LEGACY_PREFIX)}

\* C1: once a record's status is COMPLETED, FAILED or CANCELLED, no step
\* changes it to a status outside these three.
C1_TerminalNeverRegresses ==
  [][\A j \in DOMAIN jobs :
       jobs[j].status \in {"COMPLETED", "FAILED", "CANCELLED"}
         => /\ j \in DOMAIN jobs'
            /\ jobs'[j].status \in {"COMPLETED", "FAILED", "CANCELLED"}]_vars

\* C2: once a record's saved_paths is set, no step changes it, and a poll of
\* that job calls no persister and writes nothing to the store.
C2_SavedPathsAssignedOnce ==
  [][\A j \in DOMAIN jobs :
       Truthy(jobs[j].saved_paths)
         => /\ j \in DOMAIN jobs'
            /\ jobs'[j].saved_paths = jobs[j].saved_paths
            /\ (PollStep /\ active_job = j)
                 => /\ last'.persister = "not called"
                    /\ last'.put = {}
                    /\ store' = store]_vars

\* a terminal poll of a job of this session found saved_paths set by an
\* earlier poll, and refreshed the status
C2_Witness ==
  /\ last.op = "poll"
  /\ last.job # OldJobId
  /\ last.resp.fail = "none"
  /\ last.resp.status = <<"FAILED">>
  /\ last.persister = "not called"
  /\ Truthy(jobs[last.job].saved_paths)
  /\ jobs[last.job].status = "FAILED"
  /\ store[_key_from_uri(jobs[last.job].saved_paths.v["meta"])].val.v.status = "COMPLETED"

\* C3: a poll whose request failed leaves the registry and the store as they
\* were, shows no warning, calls no persister and returns None.
C3_FailedPollChangesNothing ==
  [][(PollStep /\ last'.resp.fail # "none")
       => /\ jobs' = jobs
          /\ store' = store
          /\ last'.ret = "None"
          /\ ~last'.warned
          /\ last'.persister = "not called"]_vars

\* a failed poll of a job that an earlier poll left IN_PROGRESS with output
C3_Witness ==
  /\ last.op = "poll"
  /\ last.resp.fail = "badjson"
  /\ last.ret = "None"
  /\ last.job \in DOMAIN jobs
  /\ jobs[last.job].status = "IN_PROGRESS"
  /\ jobs[last.job].output = PyDict(FullOutput)

\* C4: when a write of the persister fails during a poll, a warning is shown
\* and the poll returns its data; the record's status and output are the ones
\* of the response, saved_paths stays as it was, the objects the call wrote
\* before the failure are in the store and no object is removed.
C4_WriteFailureIsAWarning ==
  [][(PollStep /\ last'.persister = "raised")
       => /\ last'.warned
          /\ last'.ret = "data"
          /\ DOMAIN jobs' = DOMAIN jobs
          /\ jobs'[active_job].status = PollStatus(last'.resp)
          /\ jobs'[active_job].output = PollOutput(last'.resp)
          /\ jobs'[active_job].saved_paths = jobs[active_job].saved_paths
          /\ \A j \in DOMAIN jobs \ {active_job} : jobs'[j] = jobs[j]
          /\ last'.put \subseteq DOMAIN store'
          /\ DOMAIN store \subseteq DOMAIN store'
          /\ \A k \in DOMAIN store \ last'.put : store'[k] = store[k]]_vars

\* the third write of a COMPLETED job failed: meta.json and output.json stay
C4_Witness ==
  /\ last.op = "poll"
  /\ last.persister = "raised"
  /\ last.warned
  /\ last.resp.status = <<"COMPLETED">>
  /\ Cardinality(last.put) = 2
  /\ last.put \subseteq DOMAIN store
  /\ jobs[last.job].status = "COMPLETED"
  /\ jobs[last.job].saved_paths = PyNone

SlugIsEmpty(filename) == Strip(Sanitise(SplitExtRoot(filename)), {"-", "_"}) = <<>>

\* the two calls wrote the same keys, with the same bytes at each
SameWrites(r) ==
  /\ r.first.put = r.second.put
  /\ \A k \in r.first.put : r.first.store[k] = r.second.store[k]

\* C6 as stated: two calls of the persister with the same arguments write
\* the same keys and the same bytes, whatever the file name.
C6_SameWritesForEveryName ==
  result.fn = "save_transcription_assets" => SameWrites(result)

\* C6: two calls of the persister with the same arguments write the same
\* keys and the same bytes when the sanitised stem of the file name is not
\* empty; when it is empty the directory holds the uuid draw, and two calls
\* whose draws differ write to disjoint sets of keys.
C6_SameWritesWhenSlugNotEmpty ==
  result.fn = "save_transcription_assets"
    => IF ~SlugIsEmpty(call.filename) \/ call.u1 = call.u2
       THEN SameWrites(result) /\ result.second.store = result.first.store
       ELSE result.first.put \cap result.second.put = {}

\* two calls for "A b.m" with different draws and a full output
C6_Witness ==
  /\ result.fn = "save_transcription_assets"
  /\ call.filename = <<"A", " ", "b", ".", "m">>
  /\ call.u1 # call.u2
  /\ Cardinality(result.first.put) = 4
  /\ result.second.put = result.first.put

\* C7: right after a submission that gave a job id, the registry holds a
\* record for that id with status QUEUED, output None and saved_paths None.
C7_FreshRecord ==
  (last.op = "submit" /\ last.job # <<>>)
    => /\ last.job \in DOMAIN jobs
       /\ jobs[last.job].status = "QUEUED"
       /\ jobs[last.job].output = PyNone
       /\ jobs[last.job].saved_paths = PyNone

\* a job was submitted beside the one found at start-up
C7_Witness ==
  /\ last.op = "submit"
  /\ last.job \in DOMAIN jobs
  /\ OldJobId \in DOMAIN jobs
  /\ active_job = last.job
  /\ view = "detail"

\* C8: the status of every record is one of the six statuses.
C8_StatusIsOneOfSix ==
  \A j \in DOMAIN jobs :
    jobs[j].status \in {"QUEUED", "IN_PROGRESS", "COMPLETED", "FAILED", "CANCELLED", "UNKNOWN"}

\* place of a status on QUEUED -> IN_PROGRESS -> {COMPLETED, FAILED, CANCELLED}
StatusRank(s) ==
  CASE s = "QUEUED" -> 0
    [] s = "IN_PROGRESS" -> 1
    [] OTHER -> 2

\* C9: between two statuses of the state machine, a record's status never
\* moves backwards, and a terminal status never becomes another status.
C9_StatusOnlyMovesForward ==
  [][\A j \in DOMAIN jobs \cap DOMAIN jobs' :
       ( /\ jobs[j].status \in {"QUEUED", "IN_PROGRESS", "COMPLETED", "FAILED", "CANCELLED"}
         /\ jobs'[j].status \in {"QUEUED", "IN_PROGRESS", "COMPLETED", "FAILED", "CANCELLED"} )
         => /\ StatusRank(jobs[j].status) <= StatusRank(jobs'[j].status)
            /\ StatusRank(jobs[j].status) = 2 => jobs'[j].status = jobs[j].status]_vars

\* C10: a step that calls the persister, or that adds or changes an artifact
\* object, is a poll whose response carries the status COMPLETED, FAILED or
\* CANCELLED.
C10_PersistOnlyOnTerminalPoll ==
  [][( \/ PollStep /\ last'.persister # "not called"
       \/ \E k \in ArtifactKeys(store') : k \notin DOMAIN store \/ store'[k] # store[k] )
       => /\ PollStep
          /\ last'.resp.fail = "none"
          /\ last'.resp.status \in {<<"COMPLETED">>, <<"FAILED">>, <<"CANCELLED">>}]_vars

\* the second poll of the session reported CANCELLED and the persister wrote
\* the four artifacts
C10_Witness ==
  /\ last.op = "poll"
  /\ last.resp.status = <<"CANCELLED">>
  /\ last.persister = "returned"
  /\ Cardinality(last.put) = 4
  /\ polls = 2
  /\ last.put \subseteq ArtifactKeys(store)

\* the key of an artifact of the first call
CallKey(c, name) == SaveBaseDir(c.job_id, c.filename, c.u1) \o <<"/">> \o name
CallTextKey(c, ext) == CallKey(c, SplitExtRoot(c.filename) \o <<".", ext>>)

\* output[k] is a string that is not empty
IsNonEmptyString(output, k) ==
  k \in DOMAIN output /\ IsStr(output[k]) /\ output[k].v # ""

\* output[k] is a string with a character that is not white space
HasText(output, k) ==
  k \in DOMAIN output /\ IsStr(output[k]) /\ output[k].v \notin {"", " "}

\* C11 as stated: a call writes meta.json and output.json, the .srt exactly
\* when output.srt is a non-empty string and the .txt exactly when output.txt
\* is a non-empty string.
C11_TextWrittenWhenNonEmpty ==
  result.fn = "save_transcription_assets"
    => /\ CallKey(call, <<"meta.json">>) \in result.first.put
       /\ CallKey(call, <<"output.json">>) \in result.first.put
       /\ CallTextKey(call, "srt") \in result.first.put <=> IsNonEmptyString(call.output, "srt")
       /\ CallTextKey(call, "txt") \in result.first.put <=> IsNonEmptyString(call.output, "txt")

\* C11: a call writes meta.json and output.json, the .srt exactly when
\* output.srt is a string that is not empty after strip(), the .txt exactly
\* when output.txt is such a string, and nothing else; the mapping returned
\* names the objects written.
C11_TextWrittenWhenNotBlank ==
  result.fn = "save_transcription_assets"
    => /\ CallKey(call, <<"meta.json">>) \in result.first.put
       /\ CallKey(call, <<"output.json">>) \in result.first.put
       /\ CallTextKey(call, "srt") \in result.first.put <=> HasText(call.output, "srt")
       /\ CallTextKey(call, "txt") \in result.first.put <=> HasText(call.output, "txt")
       /\ result.first.put \subseteq
            { CallKey(call, <<"meta.json">>), CallKey(call, <<"output.json">>),
              CallTextKey(call, "srt"), CallTextKey(call, "txt") }
       /\ "srt" \in DOMAIN result.first.written.v <=> HasText(call.output, "srt")
       /\ "txt" \in DOMAIN result.first.written.v <=> HasText(call.output, "txt")
       /\ \A k \in result.first.put : k \in DOMAIN result.first.store

\* a COMPLETED job with text and subtitles: four objects, and locations for
\* the .srt and the .txt
C11_Witness ==
  /\ result.fn = "save_transcription_assets"
  /\ call.status = "COMPLETED"
  /\ call.output = FullOutput
  /\ Cardinality(result.first.put) = 4
  /\ result.first.written.v["srt"] = S3Uri(CallTextKey(call, "srt"))
  /\ result.first.written.v["txt"] = S3Uri(CallTextKey(call, "txt"))

(***************************************************************************)
(* _slugify_name called on its own, twice on the same name: the two calls  *)
(* differ only in the uuid draws u1 and u2.                                *)
(***************************************************************************)
SlugAlphabet == {"a", "A", "1", "é", "-", "_", " ", "."}

SlugNames ==
  {<<>>} \cup {<<c>> : c \in SlugAlphabet}
         \cup {<<c, d>> : c \in SlugAlphabet, d \in SlugAlphabet}
         \cup PersistFileNames

SlugCalls ==
  { [fn |-> "_slugify_name", name |-> n, u1 |-> a, u2 |-> b] :
      n \in SlugNames, a \in HexTokens, b \in HexTokens }

InitSlug ==
  /\ SessionStart
  /\ store = EmptyStore
  /\ call \in SlugCalls
  /\ result = NoResult

SlugTwice ==
  /\ call.fn = "_slugify_name"
  /\ result = NoResult
  /\ result' = [fn |-> "_slugify_name",
                first |-> _slugify_name(call.name, call.u1),
                second |-> _slugify_name(call.name, call.u2)]
  /\ UNCHANGED << sessionVars, call >>

SlugNext == SlugTwice

SlugSpec == InitSlug /\ [][SlugNext]_vars

\* the characters of [A-Za-z0-9_-], and the hex digits of a uuid
AsciiSlugChars == LowerChars \cup UpperChars \cup DigitChars \cup {"-", "_"} \cup HexTokens

\* the slug as the specification words it: lower-case the name, replace
\* every character outside [A-Za-z0-9_-] by "-", strip the separators, fall
\* back to a random identifier
SpecSlugReplace(s) == [i \in 1..Len(s) |-> IF s[i] \in AsciiSlugChars THEN s[i] ELSE "-"]
SpecSlug(name, u) ==
  OrElse(Strip(SpecSlugReplace(Lower(name)), {"-", "_"}), <<"f", "i", "l", "e", "-", u>>)

\* C12: the slug of a file name is the one the specification words
\* (lower-cased, every character outside [A-Za-z0-9_-] replaced by "-",
\* separators stripped), and holds only characters of [A-Za-z0-9_-].
C12_SlugIsSpecSlug ==
  result.fn = "_slugify_name"
    => /\ result.first = SpecSlug(call.name, call.u1)
       /\ \A i \in 1..Len(result.first) :
            result.first[i] \in AsciiSlugChars \cup {"f", "i", "l", "e"}

\* C13: two calls of _slugify_name on a name whose sanitised stem is not
\* empty give the same string, whatever the draws; on a name whose sanitised
\* stem is empty each call gives "file-" followed by its draw.
C13_SlugIsStable ==
  result.fn = "_slugify_name"
    => IF ~SlugIsEmpty(call.name)
       THEN result.first = result.second
       ELSE /\ result.first = <<"f", "i", "l", "e", "-", call.u1>>
            /\ result.second = <<"f", "i", "l", "e", "-", call.u2>>

\* two calls on "A b.m" with different draws give "A-b" both times
C13_Witness ==
  /\ result.fn = "_slugify_name"
  /\ call.name = <<"A", " ", "b", ".", "m">>
  /\ call.u1 # call.u2
  /\ result.first = <<"A", "-", "b">>
  /\ result.second = <<"A", "-", "b">>

(***************************************************************************)
(* list_existing_transcriptions called on its own, on the stores an        *)
(* earlier session can have left: directories the persister wrote (fully   *)
(* or up to a failed write), and meta.json objects of other origin.        *)
(***************************************************************************)
\* the record of an earlier session's job
EarlierRecord(filename, status, output) ==
  [filename |-> filename, bucket |-> S3_BUCKET,
   key |-> UPLOAD_PREFIX \o <<"u0", "_">> \o filename,
   status |-> status, output |-> PyDict(output), created_at |-> 1,
   saved_paths |-> PyNone, pending_options |-> PyNone]

\* what one call of the persister left in an empty store
Persisted1(job_id, filename, status, output, u, failAt) ==
  save_transcription_assets(EmptyStore, job_id, filename,
                            EarlierRecord(filename, status, output),
                            output, EmptyDict, u, failAt).store

\* one object
Object(key, body) == PutObject(EmptyStore, key, body)

StorePieces ==
  { \* a COMPLETED job with text and subtitles
    Persisted1(<<"J0">>, <<"a", ".", "m">>, "COMPLETED", FullOutput, "h1", 0),
    \* a FAILED job without output
    Persisted1(<<"J1">>, <<"A", " ", "b", ".", "m">>, "FAILED", EmptyDict, "h1", 0),
    \* a call whose second write failed: meta.json only
    Persisted1(<<"J2">>, <<"b", ".", "m">>, "COMPLETED", FullOutput, "h1", 2),
    \* a name with an empty slug: a call whose third write failed, and the
    \* call of the next poll
    Persisted1(<<"J3">>, <<"-", ".", "m">>, "COMPLETED", FullOutput, "h1", 3),
    Persisted1(<<"J3">>, <<"-", ".", "m">>, "COMPLETED", FullOutput, "h2", 0),
    \* bytes that are no JSON
    Object(LEGACY_PREFIX \o <<"b", "_", "J4", "/", "meta.json">>, CorruptBody),
    \* JSON that is a list
    Object(TRANSCRIPTIONS_PREFIX \o <<"b", "_", "J5", "/", "meta.json">>,
           JsonDumps(PyList(<<1>>))),
    \* JSON that is the empty object
    Object(TRANSCRIPTIONS_PREFIX \o <<"a", "_", "J5", "/", "meta.json">>,
           JsonDumps(PyDict(EmptyDict))),
    \* a meta.json of the old layout, without job id and file name
    Object(LEGACY_PREFIX \o <<"b", "_", "J6", "/", "meta.json">>,
           JsonDumps(PyDict([status |-> "COMPLETED"]))),
    \* a meta.json of the old layout for job J0, which the current layout
    \* may hold as well
    Object(LEGACY_PREFIX \o <<"a", "_", "J0", "/", "meta.json">>,
           JsonDumps(PyDict([job_id |-> <<"J0">>, filename |-> <<"b", ".", "m">>,
                             status |-> "FAILED", created_at |-> 2]))) }

\* the pieces of S in one store (their keys are disjoint)
Merge(S) ==
  [k \in UNION {DOMAIN p : p \in S} |-> (CHOOSE p \in S : k \in DOMAIN p)[k]]

BootStores == {Merge(S) : S \in SUBSET StorePieces}

BootLimits == {1, ScanLimit}

InitBoot ==
  /\ SessionStart
  /\ store \in BootStores
  /\ \E limit \in BootLimits, listOk \in BOOLEAN :
     \E unreadable \in {{}} \cup {{k} : k \in MetaKeys(store)} :
       call = [fn |-> "list_existing_transcriptions", limit |-> limit,
               unreadable |-> unreadable, listOk |-> listOk]
  /\ result = NoResult

\* the scan with its outcome named
Scanned(r) ==
  [fn |-> "list_existing_transcriptions", jobs |-> r.jobs, seen |-> r.seen,
   stop |-> r.stop]

BootOnce ==
  /\ call.fn = "list_existing_transcriptions"
  /\ result = NoResult
  /\ result' = Scanned(list_existing_transcriptions(NoJobs, store, call.limit,
                                                    call.unreadable, call.listOk))
  /\ UNCHANGED << sessionVars, call >>

BootNext == BootOnce

BootSpec == InitBoot /\ [][BootNext]_vars

\* the meta.json keys under the two scanned prefixes
ScannedMetaKeys(st) ==
  {k \in DOMAIN st :
     /\ StartsWith(k, TRANSCRIPTIONS_PREFIX) \/ StartsWith(k, LEGACY_PREFIX)
     /\ EndsWith(k, <<"/", "meta.json">>)}

\* the directory of a meta.json key
DirOf(k) == SubSeq(k, 1, Len(k) - 2)

\* the body at k parses to metadata with a job id and a file name
HasJobMeta(st, k) ==
  /\ st[k].kind = "json"
  /\ st[k].val.t = "dict"
  /\ "job_id" \in DOMAIN st[k].val.v
  /\ "filename" \in DOMAIN st[k].val.v

\* the locations the path convention gives for directory dir and file name F
Conventional(dir, F) ==
  [meta        |-> <<"s3:", "/", "/", "bucket", "/">> \o dir \o <<"/", "meta.json">>,
   output_json |-> <<"s3:", "/", "/", "bucket", "/">> \o dir \o <<"/", "output.json">>,
   srt         |-> <<"s3:", "/", "/", "bucket", "/">> \o dir \o <<"/">>
                     \o SplitExtRoot(PathBasename(F)) \o <<".", "srt">>,
   txt         |-> <<"s3:", "/", "/", "bucket", "/">> \o dir \o <<"/">>
                     \o SplitExtRoot(PathBasename(F)) \o <<".", "txt">>]

\* the scan gave job J the record that the meta.json at k describes
EntryFrom(st, k, js) ==
  /\ st[k].val.v.job_id \in DOMAIN js
  /\ js[st[k].val.v.job_id].filename = st[k].val.v.filename
  /\ js[st[k].val.v.job_id].saved_paths
       = PyDict(Conventional(DirOf(k), st[k].val.v.filename))

\* the job id the scan derives from the meta.json at k (<<>> when it derives
\* none: the body is no JSON object, or an empty one)
ScanIdOf(st, k) ==
  IF st[k].kind = "json" /\ st[k].val.t = "dict" /\ DOMAIN st[k].val.v # {}
  THEN BootJobId(st[k].val.v, DirOf(k))
  ELSE <<>>

\* C14 as stated: every meta.json under a scanned prefix whose body has a
\* job id and a file name gives a registry entry for that job id with the
\* conventional locations of its directory.
C14_EveryMetaGivesItsEntry ==
  result.fn = "list_existing_transcriptions"
    => \A k \in ScannedMetaKeys(store) :
         HasJobMeta(store, k) => EntryFrom(store, k, result.jobs)

\* the keys in the order the scan visits them
ScanOrder(st) ==
  ListObjects(st, TRANSCRIPTIONS_PREFIX) \o ListObjects(st, LEGACY_PREFIX)

\* the loop of the scan gets as far as the i-th key: the listing did not
\* fail, and neither the limit nor an exception ended the loop before it
Reached(st, order, i) ==
  /\ call.listOk
  /\ ScanKeys(st, SubSeq(order, 1, i - 1), 1, call.unreadable, call.limit,
              [jobs |-> NoJobs, seen |-> 0, stop |-> "no"]).stop = "no"

\* the i-th key is a meta.json that was read and has a job id and a file name
ReadJobMeta(st, order, i) ==
  /\ EndsWith(order[i], <<"/", "meta.json">>)
  /\ order[i] \notin call.unreadable
  /\ HasJobMeta(st, order[i])

\* no meta.json the loop gets to after the i-th yields the same job id
LastOfItsJob(st, order, i) ==
  \A j \in (i + 1)..Len(order) :
    ( /\ Reached(st, order, j)
      /\ EndsWith(order[j], <<"/", "meta.json">>)
      /\ order[j] \notin call.unreadable )
      => ScanIdOf(st, order[j]) # st[order[i]].val.v.job_id

EntriesOfReached(st, order, js) ==
  \A i \in 1..Len(order) :
    ( /\ ReadJobMeta(st, order, i)
      /\ Reached(st, order, i)
      /\ LastOfItsJob(st, order, i) )
      => EntryFrom(st, order[i], js)

\* C14: every meta.json under a scanned prefix that the scan gets to (the
\* listing did not fail, and neither the scan limit nor an exception ended
\* the loop before it), that was read, whose body has a job id and a file
\* name, and whose job id no meta.json scanned after it yields, gives a
\* registry entry for that job id with the conventional locations of its
\* directory.
C14_MetaGivesItsEntryWhenScanned ==
  result.fn = "list_existing_transcriptions"
    => EntriesOfReached(store, ScanOrder(store), result.jobs)

\* the entry of job J0, filename a.m, found beside a corrupt meta.json
C14_Witness ==
  /\ result.fn = "list_existing_transcriptions"
  /\ result.stop = "no"
  /\ LEGACY_PREFIX \o <<"b", "_", "J4", "/", "meta.json">> \in DOMAIN store
  /\ <<"J0">> \in DOMAIN result.jobs
  /\ result.jobs[<<"J0">>].saved_paths.v["srt"]
       = <<"s3:", "/", "/", "bucket", "/", "Srt-model", "/", "transcriptions", "/",
           "a", "_", "J0", "/", "a", ".", "srt">>

(***************************************************************************)
(* Persist, then restart: one call of save_transcription_assets in an      *)
(* earlier session, then the bootstrap of a new session over the store it  *)
(* left.                                                                   *)
(***************************************************************************)
RoundFileNames == PersistFileNames \cup { <<"a", "/", "b", ".", "m">> }

\* 0: no write fails; k: the k-th put_object raises
RoundFailPoints == 0..4

RoundCalls ==
  { [fn |-> "save_transcription_assets", job_id |-> j, filename |-> f,
     status |-> s, output |-> o, u1 |-> a, failAt |-> k] :
      j \in PersistJobIds, f \in RoundFileNames, s \in PersistStatuses,
      o \in PersistOutputs, a \in HexTokens, k \in RoundFailPoints }

InitRound ==
  /\ SessionStart
  /\ store = EmptyStore
  /\ call \in RoundCalls
  /\ result = NoResult

Saved(r) ==
  [fn |-> "save_transcription_assets", put |-> r.put, raised |-> r.raised,
   written |-> r.written]

Restarted(saved, r) ==
  [fn |-> "restart", put |-> saved.put, raised |-> saved.raised,
   written |-> saved.written, jobs |-> r.jobs, stop |-> r.stop]

RoundSave(r) ==
  /\ result' = Saved(r)
  /\ store' = r.store

\* the earlier session: the persister runs once
RoundPersist ==
  /\ call.fn = "save_transcription_assets"
  /\ "failAt" \in DOMAIN call
  /\ result = NoResult
  /\ RoundSave(save_transcription_assets(store, call.job_id, call.filename,
                                         PersistRecord(call), call.output,
                                         EmptyDict, call.u1, call.failAt))
  /\ UNCHANGED << jobs, view, active_job, UPLOADED_FILE, RUNPOD_OBJECT_KEY,
                  bootstrapped, pc, out, clock, uploads, polls, last, call >>

\* the later session: the bootstrap scans the store
RoundRestart ==
  /\ result.fn = "save_transcription_assets"
  /\ "put" \in DOMAIN result
  /\ result' = Restarted(result,
                         list_existing_transcriptions(NoJobs, store, ScanLimit, {}, TRUE))
  /\ UNCHANGED << sessionVars, call >>

RoundNext == RoundPersist \/ RoundRestart

RoundSpec == InitRound /\ [][RoundNext]_vars

\* the persister of the earlier session wrote something for the job
RoundTripDone == result.fn = "restart" /\ result.put # {}

\* the keys the reconstructed record of job J names
NamedKeys(rec) ==
  {_key_from_uri(rec.saved_paths.v[nm]) : nm \in DOMAIN rec.saved_paths.v}

\* C15 as stated: after persist-then-restart the reconstructed record has the
\* job id and the file name of the persisted job, and every location in its
\* saved_paths names an object the persister wrote and that is in the store.
C15_EveryLocationWasWritten ==
  RoundTripDone
    => /\ call.job_id \in DOMAIN result.jobs
       /\ result.jobs[call.job_id].filename = call.filename
       /\ NamedKeys(result.jobs[call.job_id]) \subseteq (result.put \cap DOMAIN store)

\* C15: after persist-then-restart the registry has a record under the job id
\* of the persisted job; its file name is the persisted one when that is not
\* empty; its meta location names the meta.json the persister wrote; and,
\* when the file name is not empty and has no directory part, every object
\* the persister wrote is named by the record (the record may name more:
\* the locations are the conventional four, written or not).
C15_RoundTripKeepsIdNameAndWritten ==
  RoundTripDone
    => /\ call.job_id \in DOMAIN result.jobs
       /\ call.filename # <<>>
            => result.jobs[call.job_id].filename = call.filename
       /\ _key_from_uri(result.jobs[call.job_id].saved_paths.v["meta"])
            \in (result.put \cap DOMAIN store)
       /\ (call.filename # <<>> /\ PathBasename(call.filename) = call.filename)
            => result.put \subseteq NamedKeys(result.jobs[call.job_id])

\* a call whose third write failed, for a job with text: the record of the
\* restart names the two written objects and two that were never written
C15_Witness ==
  /\ RoundTripDone
  /\ call.filename = <<"a", ".", "m">>
  /\ result.raised
  /\ Cardinality(result.put) = 2
  /\ Cardinality(NamedKeys(result.jobs[call.job_id])) = 4
  /\ result.put \subseteq NamedKeys(result.jobs[call.job_id])

\* the artifact objects of the job the store held at start-up (the only job
\* the bootstrap of Spec can insert: the ids issued in a session differ)
OldJobKeys(st) ==
  {k \in DOMAIN st :
     StartsWith(k, SaveBaseDir(OldJobId, OldFileName, "h1") \o <<"/">>)}

\* C16: every record the bootstrap inserts has output None and a non-empty
\* saved_paths; and once such a record is in the registry, a poll of its job
\* calls no persister, and no step writes or changes an artifact object of
\* that job.
C16_BootstrappedNeverPersistedAgain ==
  [][ /\ last'.op = "bootstrap"
         => \A j \in DOMAIN jobs' \ DOMAIN jobs :
              /\ jobs'[j].output = PyNone
              /\ MappingSize(jobs'[j].saved_paths) > 0
      /\ OldJobId \in DOMAIN jobs
         => /\ (PollStep /\ active_job = OldJobId)
                 => last'.persister = "not called" /\ last'.put = {}
            /\ \/ store' = store
               \/ /\ OldJobKeys(store') = OldJobKeys(store)
                  /\ \A k \in OldJobKeys(store) : store'[k] = store[k] ]_vars

\* a poll of the bootstrapped job reported COMPLETED with output, and the
\* persister was not called
C16_Witness ==
  /\ last.op = "poll"
  /\ active_job = OldJobId
  /\ OldJobId \in DOMAIN jobs
  /\ last.resp.fail = "none"
  /\ last.resp.status = <<"COMPLETED">>
  /\ last.persister = "not called"
  /\ MappingSize(jobs[OldJobId].saved_paths) = 4
  /\ OldJobKeys(store) # {}

\* the body at k is job metadata: a JSON object that is not empty
ValidMeta(st, k) ==
  st[k].kind = "json" /\ st[k].val.t = "dict" /\ DOMAIN st[k].val.v # {}

\* the meta.json keys the scan can read
ReadableMetaKeys(st) == ScannedMetaKeys(st) \ call.unreadable

\* C17: a scan that the listing and the scan limit let run over every key
\* raises nothing, recovers an entry for every valid meta.json it can read,
\* and has no entry from a meta.json whose body is corrupt, is no JSON, or is
\* JSON that is not an object.
C17_CorruptMetaIsSkipped ==
  (result.fn = "list_existing_transcriptions" /\ call.listOk /\ call.limit = ScanLimit)
    => /\ result.stop # "raised"
       /\ \A k \in ReadableMetaKeys(store) :
            ValidMeta(store, k) => ScanIdOf(store, k) \in DOMAIN result.jobs
       /\ \A j \in DOMAIN result.jobs :
            \E k \in ReadableMetaKeys(store) :
              /\ ValidMeta(store, k)
              /\ result.jobs[j].saved_paths.v["meta"]
                   = <<"s3:", "/", "/", "bucket", "/">> \o k

(***************************************************************************)
(* Feedback recorder: save_feedback_to_s3 and the feedback form of the     *)
(* detail page.  u1 and u2 are the draws of uuid4 the two slugs make when  *)
(* the sanitised name is empty; now is the clock reading of created_at.    *)
(***************************************************************************)
\* a faulty variant: the key also carries the time of the submission
FeedbackKey_with_time(filename, user_name, u1, u2, now) ==
  FEEDBACK_PREFIX \o _slugify_name(filename, u1) \o <<"-">>
    \o _slugify_user(user_name, u2) \o <<"-", ToString(now)>>

\* key = f"{FEEDBACK_PREFIX}{fname_slug}-{user_slug}"
FeedbackKey(filename, user_name, u1, u2, now) ==
  FEEDBACK_PREFIX \o _slugify_name(filename, u1) \o <<"-">>
    \o _slugify_user(user_name, u2)

FeedbackBody(filename, user_name, feedback, job_id, now) ==
  JsonDumps(PyDict([job_id |-> job_id, filename |-> filename,
                    username |-> user_name, feedback |-> feedback,
                    created_at |-> now]))

\* putOk = FALSE: put_object raises and the exception leaves the function
FeedbackPut(st, key, body, putOk) ==
  [store  |-> IF putOk THEN PutObject(st, key, body) ELSE st,
   raised |-> ~putOk,
   uri    |-> IF putOk THEN S3Uri(key) ELSE <<>>]

save_feedback_to_s3(st, filename, user_name, feedback, job_id, u1, u2, now, putOk) ==
  FeedbackPut(st, FeedbackKey(filename, user_name, u1, u2, now),
              FeedbackBody(filename, user_name, feedback, job_id, now), putOk)

\* the number of submissions of the form in one run of the model
MaxFeedback == 2

FeedbackFileNames == { <<"a", ".", "m">>, <<"-", ".", "m">>, <<>> }
FeedbackUsers ==
  { <<"a">>, <<" ", "a">>, <<"A", " ", "b">>, <<"A", "-", "b">>, <<"-">>, <<" ">>,
    <<>> }
FeedbackTexts == { <<"x">>, <<"y", " ">>, <<" ">> }

\* str.strip()
StripSpace(s) == Strip(s, {" "})

InitFeedback ==
  /\ SessionStart
  /\ store = EmptyStore
  /\ call \in { [fn |-> "feedback_form", filename |-> f, job_id |-> <<"J1">>] :
                  f \in FeedbackFileNames }
  /\ result = [fn |-> "feedback_form", shown |-> "none", n |-> 0,
               users |-> <<>>, texts |-> <<>>, uris |-> <<>>]

\* the form's outcome: a warning, an error, or a saved submission, which is
\* appended to the submissions saved so far
FormWarned(msg) ==
  /\ result' = [result EXCEPT !.shown = msg, !.n = @ + 1]
  /\ store' = store

FormSaved(user, text, r) ==
  /\ result' = IF r.raised
               THEN [result EXCEPT !.shown = "error", !.n = @ + 1]
               ELSE [result EXCEPT !.shown = "success", !.n = @ + 1,
                                   !.users = Append(@, user),
                                   !.texts = Append(@, text),
                                   !.uris = Append(@, r.uri)]
  /\ store' = r.store

\* lines 792-801: `if submitted:` of the feedback form
FeedbackSubmit ==
  /\ call.fn = "feedback_form"
  /\ result.n < MaxFeedback
  /\ \E fb_user \in FeedbackUsers, fb_text \in FeedbackTexts,
        u1 \in HexTokens, u2 \in HexTokens, putOk \in BOOLEAN :
       IF StripSpace(fb_user) = <<>> THEN FormWarned("warning: name")
       ELSE IF StripSpace(fb_text) = <<>> THEN FormWarned("warning: feedback")
       ELSE FormSaved(StripSpace(fb_user), StripSpace(fb_text),
                      save_feedback_to_s3(store, call.filename, StripSpace(fb_user),
                                          StripSpace(fb_text), call.job_id,
                                          u1, u2, result.n + 1, putOk))
  /\ UNCHANGED << jobs, view, active_job, UPLOADED_FILE, RUNPOD_OBJECT_KEY,
                  bootstrapped, pc, out, clock, uploads, polls, last, call >>

FeedbackNext == FeedbackSubmit

FeedbackSpec == InitFeedback /\ [][FeedbackNext]_vars

\* the stored feedback objects of the pair (filename, username)
PairObjects(st, filename, user) ==
  {k \in DOMAIN st :
     /\ StartsWith(k, FEEDBACK_PREFIX)
     /\ st[k].val.v.filename = filename
     /\ st[k].val.v.username = user}

\* the last saved submission has the user name of an earlier one
SavedTwice ==
  /\ result.fn = "feedback_form"
  /\ "users" \in DOMAIN result
  /\ Len(result.users) >= 2
  /\ \E i \in 1..(Len(result.users) - 1) :
       result.users[i] = result.users[Len(result.users)]

UserSlugIsEmpty(user) ==
  Strip(Sanitise(OrElse(user, <<"u", "s", "e", "r">>)), {"-", "_"}) = <<>>

\* exactly one object of the pair, and it holds the last text
OneObjectWithLastText(st, filename, user, text) ==
  /\ Cardinality(PairObjects(st, filename, user)) = 1
  /\ \A k \in PairObjects(st, filename, user) : st[k].val.v.feedback = text

\* C18 as stated: after feedback was saved twice for one (filename,
\* username), exactly one object of that pair is stored, holding the text of
\* the later submission, whatever the file name and the user name.
C18_OneObjectForEveryPair ==
  SavedTwice
    => OneObjectWithLastText(store, call.filename,
                             result.users[Len(result.users)],
                             result.texts[Len(result.texts)])

\* C18: after feedback was saved twice for one (filename, username) whose
\* two slugs are not empty, exactly one object of that pair is stored, at
\* the key feedback/<slug(filename)>-<slug(username)>, holding the text of
\* the later submission.
C18_OneObjectWhenSlugsNotEmpty ==
  ( /\ SavedTwice
    /\ ~SlugIsEmpty(call.filename)
    /\ ~UserSlugIsEmpty(result.users[Len(result.users)]) )
    => /\ OneObjectWithLastText(store, call.filename,
                                result.users[Len(result.users)],
                                result.texts[Len(result.texts)])
       /\ PairObjects(store, call.filename, result.users[Len(result.users)])
            = { FEEDBACK_PREFIX
                  \o Strip(Sanitise(SplitExtRoot(call.filename)), {"-", "_"})
                  \o <<"-">>
                  \o Strip(Sanitise(result.users[Len(result.users)]), {"-", "_"}) }

\* "A b" gave feedback x and then feedback y on a.m: one object, holding y
C18_Witness ==
  /\ SavedTwice
  /\ call.filename = <<"a", ".", "m">>
  /\ result.users = << <<"A", " ", "b">>, <<"A", " ", "b">> >>
  /\ result.texts = << <<"x">>, <<"y">> >>
  /\ DOMAIN store = { FEEDBACK_PREFIX \o <<"a", "-", "A", "-", "b">> }

\* C19: a submission that the endpoint answers without a job id (none of id,
\* jobId, job_id) leaves the registry, the active job and the view as they
\* were, and shows a warning.
C19_NoJobIdRecordsNothing ==
  [][(last'.op = "submit" /\ last'.submit = "no id")
       => /\ jobs' = jobs
          /\ active_job' = active_job
          /\ view' = view
          /\ last'.ret = "warning"]_vars

\* the upload went through, the endpoint answered without a job id: the
\* uploaded object is in the store, and the registry holds only the job the
\* bootstrap found
C19_Witness ==
  /\ last.op = "submit"
  /\ last.submit = "no id"
  /\ last.ret = "warning"
  /\ RUNPOD_OBJECT_KEY \in DOMAIN store
  /\ DOMAIN jobs = {OldJobId}
  /\ active_job = <<>>
  /\ view = "home"

(***************************************************************************)
(* The session with the detail page's poll loop left to run: while the job *)
(* is not terminal, details_main_area sleeps two seconds and calls         *)
(* st.rerun(), and the next run polls again (lines 712-720).  The loop     *)
(* keeps no count and no start time; polls, which the model counts up to   *)
(* MaxPolls, stays at MaxPolls from there on.  The runs of the script that *)
(* st.rerun() starts do happen (weak fairness of the three steps of a      *)
(* run); what the user clicks is left open.                                *)
(***************************************************************************)
PollAgain ==
  /\ pc = "poll"
  /\ \E resp \in Responses, u \in SessionDraws, failAt \in FailPoints :
       Polled(refresh_status_once(jobs, store, active_job, resp, u, failAt), resp)
  /\ pc' = "post"
  /\ polls' = IF polls < MaxPolls THEN polls + 1 ELSE polls
  /\ UNCHANGED << view, active_job, UPLOADED_FILE, RUNPOD_OBJECT_KEY, bootstrapped,
                  out, clock, uploads >>

WaitNext ==
  \/ Bootstrap /\ UNCHANGED pureVars
  \/ ChooseFile /\ UNCHANGED pureVars
  \/ UploadAndTranscribe /\ UNCHANGED pureVars
  \/ Regenerate /\ UNCHANGED pureVars
  \/ SelectJob /\ UNCHANGED pureVars
  \/ BackToHome /\ UNCHANGED pureVars
  \/ DetailsLoad /\ UNCHANGED pureVars
  \/ PollAgain /\ UNCHANGED pureVars
  \/ DetailsRender /\ UNCHANGED pureVars

WaitSpec ==
  /\ Init
  /\ [][WaitNext]_vars
  /\ WF_vars(DetailsLoad /\ UNCHANGED pureVars)
  /\ WF_vars(PollAgain /\ UNCHANGED pureVars)
  /\ WF_vars(DetailsRender /\ UNCHANGED pureVars)

\* the detail page shows a job of the registry that is not terminal
Waiting ==
  /\ view = "detail"
  /\ active_job \in DOMAIN jobs
  /\ jobs[active_job].status \notin TerminalStatuses

\* C20: when the job on the detail page never becomes terminal, the polling
\* gives up: from some point on no poll is made any more, while the record
\* stays in the registry.
C20_PollingGivesUp ==
  (<>[]Waiting) => <>[](pc # "post" /\ active_job \in DOMAIN jobs)

\* C22: the persister is called only on a poll that reports a terminal status
\* with a non-empty output: a poll that reports COMPLETED, FAILED or
\* CANCELLED with a missing or empty output calls no persister, writes no
\* object and leaves saved_paths of the job as it was.
C22_NoPersistWithoutOutput ==
  [][(PollStep /\ last'.resp.fail = "none" /\ ~Truthy(last'.resp.output))
       => /\ last'.persister = "not called"
          /\ last'.put = {}
          /\ store' = store
          /\ jobs'[active_job].saved_paths = jobs[active_job].saved_paths]_vars

\* the writes the persister call of RoundSpec has to make, in program order
RoundWrites ==
  SaveWrites(call.job_id, call.filename, PersistRecord(call), call.output,
             EmptyDict, call.u1)

\* the names of the writes ws in their order
WriteNames(ws) == [i \in 1..Len(ws) |-> ws[i].name]

\* C23: the writes of a persister call are meta.json, output.json,
\* <basename>.srt, <basename>.txt in this order, and a write that fails does
\* not keep the later ones from being made: after the call every write but
\* the failed one is in the store.
C23_LaterWritesAfterFailure ==
  (result.fn = "save_transcription_assets" /\ "put" \in DOMAIN result)
    => /\ WriteNames(RoundWrites) \in
            { <<"meta", "output_json">>, <<"meta", "output_json", "srt">>,
              <<"meta", "output_json", "txt">>,
              <<"meta", "output_json", "srt", "txt">> }
       /\ \A i \in 1..Len(RoundWrites) :
            i # call.failAt => RoundWrites[i].key \in result.put

\* the positions of the scan order whose key is a meta.json the scan can read
MetaPositions(order) ==
  {i \in 1..Len(order) :
     EndsWith(order[i], <<"/", "meta.json">>) /\ order[i] \notin call.unreadable}

\* those among them whose body is valid job metadata
ValidPositions(st, order) == {i \in MetaPositions(order) : ValidMeta(st, order[i])}

\* the meta.json objects the loop reads: those it gets to
ReadPositions(st, order) =={i \in MetaPositions(order) : Reached(st, order, i)}

\* the registry has a record made from the meta.json at key k
InsertedFrom(js, k) ==
  \E j \in DOMAIN js :
    js[j].saved_paths.v["meta"] = <<"s3:", "/", "/", "bucket", "/">> \o k

\* the valid meta.json at position i has at least limit valid ones before it
BeyondLimit(st, order, i) ==
  Cardinality({m \in ValidPositions(st, order) : m < i}) >= call.limit

NothingBeyondLimit(st, order, js) ==
  \A i \in ValidPositions(st, order) :
    BeyondLimit(st, order, i) => ~InsertedFrom(js, order[i])

\* C24 as stated: a run reads at most `limit` meta.json objects, the ones it
\* skips as corrupt or empty counted, and inserts none after that.
C24_AtMostLimitRead ==
  result.fn = "list_existing_transcriptions"
    => /\ Cardinality(ReadPositions(store, ScanOrder(store))) <= call.limit
       /\ NothingBeyondLimit(store, ScanOrder(store), result.jobs)

\* C24: a run inserts at most `limit` entries, counted across both prefixes:
\* its count of insertions and the size of the registry stay within the
\* limit, and a valid meta.json with `limit` valid ones before it in the scan
\* order gives no entry.  (A meta.json that is read and skipped is not
\* counted.)
C24_AtMostLimitInserted ==
  result.fn = "list_existing_transcriptions"
    => /\ result.seen <= call.limit
       /\ Cardinality(DOMAIN result.jobs) <= call.limit
       /\ NothingBeyondLimit(store, ScanOrder(store), result.jobs)

\* limit 1, a current and a legacy prefix with a meta.json each: the scan
\* skipped an empty meta.json, inserted job J0 and stopped before the legacy
\* prefix
C24_Witness ==
  /\ result.fn = "list_existing_transcriptions"
  /\ call.limit = 1
  /\ result.stop = "limit"
  /\ result.seen = 1
  /\ DOMAIN result.jobs = { <<"J0">> }
  /\ TRANSCRIPTIONS_PREFIX \o <<"a", "_", "J5", "/", "meta.json">> \in DOMAIN store
  /\ LEGACY_PREFIX \o <<"b", "_", "J6", "/", "meta.json">> \in DOMAIN store

\* the positions whose meta.json the scan reads and accepts as the metadata
\* of job j
ScannedFor(st, order, j) ==
  {i \in ValidPositions(st, order) :
     Reached(st, order, i) /\ ScanIdOf(st, order[i]) = j}

\* the record of job j has the file name, status, time and locations of the
\* meta.json at key k (a meta.json of the model that names a job id has all
\* of job_id, filename, status and created_at)
RecordFrom(st, k, rec) ==
  /\ rec.filename = st[k].val.v.filename
  /\ rec.status = st[k].val.v.status
  /\ rec.created_at = st[k].val.v.created_at
  /\ rec.saved_paths = PyDict(Conventional(DirOf(k), st[k].val.v.filename))
  /\ rec.output = PyNone

LastScannedWins(st, order, js) ==
  \A i \in ValidPositions(st, order), m \in ValidPositions(st, order) :
    ( /\ i < m
      /\ StartsWith(order[i], TRANSCRIPTIONS_PREFIX)
      /\ StartsWith(order[m], LEGACY_PREFIX)
      /\ HasJobMeta(st, order[i])
      /\ HasJobMeta(st, order[m])
      /\ st[order[i]].val.v.job_id = st[order[m]].val.v.job_id
      /\ m = MaxOr0(ScannedFor(st, order, st[order[m]].val.v.job_id)) )
      => /\ st[order[m]].val.v.job_id \in DOMAIN js
         /\ RecordFrom(st, order[m], js[st[order[m]].val.v.job_id])

\* C25: when the current and the legacy prefix both hold a meta.json for one
\* job id, the registry after the bootstrap has one record under that id (it
\* is a mapping from job ids), and when the legacy one is the last the scan
\* has read for that id, the record's file name, status, created_at and
\* saved_paths are those of the legacy entry.
C25_LastScannedWins ==
  result.fn = "list_existing_transcriptions"
    => LastScannedWins(store, ScanOrder(store), result.jobs)

\* job J0 under both prefixes, with file a.m and COMPLETED under the current
\* one and with file b.m and FAILED under the legacy one: the record is the
\* legacy one
C25_Witness ==
  /\ result.fn = "list_existing_transcriptions"
  /\ TRANSCRIPTIONS_PREFIX \o <<"a", "_", "J0", "/", "meta.json">> \in DOMAIN store
  /\ LEGACY_PREFIX \o <<"a", "_", "J0", "/", "meta.json">> \in DOMAIN store
  /\ <<"J0">> \in DOMAIN result.jobs
  /\ result.jobs[<<"J0">>].filename = <<"b", ".", "m">>
  /\ result.jobs[<<"J0">>].status = "FAILED"
  /\ result.jobs[<<"J0">>].created_at = 2
  /\ result.jobs[<<"J0">>].saved_paths.v["srt"]
       = <<"s3:", "/", "/", "bucket", "/", "transcriptions", "/",
           "a", "_", "J0", "/", "b", ".", "srt">>

\* C26: the status of a record of the registry changes only in a step that
\* is a poll of that job whose request succeeded; no other step (a
\* submission, the bootstrap, navigation, the rendering of a page) changes
\* the status of a record, and no step removes a record.
C26_StatusChangesOnlyOnPoll ==
  [][\A j \in DOMAIN jobs :
       /\ j \in DOMAIN jobs'
       /\ jobs'[j].status # jobs[j].status
            => /\ PollStep
               /\ active_job = j
               /\ last'.resp.fail = "none"]_vars

\* a poll moved the submitted job to IN_PROGRESS while the record the
\* bootstrap found kept its status
C26_Witness ==
  /\ last.op = "poll"
  /\ last.resp.fail = "none"
  /\ last.resp.status = <<"IN_PROGRESS">>
  /\ active_job # OldJobId
  /\ jobs[active_job].status = "IN_PROGRESS"
  /\ OldJobId \in DOMAIN jobs
  /\ jobs[OldJobId].status = "COMPLETED"

(***************************************************************************)
(* refresh_status_once as a function: a registry, a store, a job id and a  *)
(* response are drawn, and the function is applied once.                   *)
(***************************************************************************)
\* registries a session can hold: empty; the job J1 just submitted; J1 and
\* the bootstrapped job J0; J1 persisted and J2 in progress
RefreshRegistries ==
  { NoJobs,
    record_job(NoJobs, <<"J1">>, <<"a", ".", "m">>, S3_BUCKET,
               UPLOAD_PREFIX \o <<"u1", "_", "a", ".", "m">>, 1),
    record_job(list_existing_transcriptions(NoJobs, SeedStore, ScanLimit, {}, TRUE).jobs,
               <<"J1">>, <<"a", ".", "m">>, S3_BUCKET,
               UPLOAD_PREFIX \o <<"u1", "_", "a", ".", "m">>, 1),
    update_job(
      record_job(
        refresh_status_once(
          record_job(NoJobs, <<"J1">>, <<"a", ".", "m">>, S3_BUCKET,
                     UPLOAD_PREFIX \o <<"u1", "_", "a", ".", "m">>, 1),
          EmptyStore, <<"J1">>,
          [fail |-> "none", status |-> <<"COMPLETED">>, output |-> PyDict(FullOutput)],
          "h1", 0).jobs,
        <<"J2">>, <<"A", " ", "b", ".", "m">>, S3_BUCKET,
        UPLOAD_PREFIX \o <<"u2", "_", "A", " ", "b", ".", "m">>, 2),
      <<"J2">>, "IN_PROGRESS", PyDict(EmptyDict)) }

RefreshJobIds == { <<"J1">>, <<"J2">>, <<"J3">> }

RefreshCalls ==
  { [fn |-> "refresh_status_once", jobs |-> js, store |-> st, job_id |-> j,
     resp |-> r, failAt |-> k] :
      js \in RefreshRegistries, st \in InitStores, j \in RefreshJobIds,
      r \in Responses, k \in FailPoints }

InitRefresh ==
  /\ SessionStart
  /\ store = EmptyStore
  /\ call \in RefreshCalls
  /\ result = NoResult

Refreshed(r) ==
  [fn |-> "refresh_status_once", jobs |-> r.jobs, store |-> r.store,
   ret |-> r.ret, persister |-> r.persister, put |-> r.put]

RefreshOnce ==
  /\ call.fn = "refresh_status_once"
  /\ result = NoResult
  /\ result' = Refreshed(refresh_status_once(call.jobs, call.store, call.job_id,
                                             call.resp, "h1", call.failAt))
  /\ UNCHANGED << sessionVars, call >>

RefreshNext == RefreshOnce

RefreshSpec == InitRefresh /\ [][RefreshNext]_vars

\* C27: refresh_status_once(job_id) adds no entry to the registry and leaves
\* every entry but job_id's as it was; when job_id is not in the registry
\* it changes neither the registry nor the store, whatever the response.
C27_OnlyThePolledEntryChanges ==
  result.fn = "refresh_status_once"
    => /\ DOMAIN result.jobs = DOMAIN call.jobs
       /\ \A j \in DOMAIN call.jobs \ {call.job_id} : result.jobs[j] = call.jobs[j]
       /\ call.job_id \notin DOMAIN call.jobs
            => /\ result.jobs = call.jobs
               /\ result.store = call.store
               /\ result.put = {}
               /\ result.persister = "not called"

\* a poll of J3, which the registry of J1 and J2 does not hold, reported
\* COMPLETED with output: the function returned the data and changed nothing
C27_Witness ==
  /\ result.fn = "refresh_status_once"
  /\ call.job_id = <<"J3">>
  /\ DOMAIN call.jobs = { <<"J1">>, <<"J2">> }
  /\ call.resp.fail = "none"
  /\ call.resp.status = <<"COMPLETED">>
  /\ Truthy(call.resp.output)
  /\ result.ret = "data"
  /\ result.jobs = call.jobs
  /\ result.store = call.store

(***************************************************************************)
(* The polls of one job, one after the other: refresh_status_once is       *)
(* applied to the registry and the store the poll before it left.          *)
(***************************************************************************)
\* the number of polls in one run of the model
MaxRetryPolls == 3

RetryJobId == <<"J1">>

InitRetry ==
  /\ SessionStart
  /\ store = EmptyStore
  /\ call = [fn |-> "polls", job_id |-> RetryJobId]
  /\ result = [fn |-> "polls", n |-> 0, resp |-> NoResp, persister |-> "not called",
               failed |-> FALSE,
               jobs |-> record_job(NoJobs, RetryJobId, <<"a", ".", "m">>, S3_BUCKET,
                                   UPLOAD_PREFIX \o <<"u1", "_", "a", ".", "m">>, 1)]

\* the state after a poll whose effect is r; failed: some poll so far had
\* its persister call raise
RetryPolled(r, resp) ==
  /\ result' = [fn |-> "polls", n |-> result.n + 1, resp |-> resp,
                persister |-> r.persister,
                failed |-> (result.failed \/ r.persister = "raised"),
                jobs |-> r.jobs]
  /\ store' = r.store

RetryPoll ==
  /\ call.fn = "polls"
  /\ result.n < MaxRetryPolls
  /\ \E resp \in Responses, failAt \in FailPoints :
       RetryPolled(refresh_status_once(result.jobs, store, call.job_id, resp, "h1", failAt),
                   resp)
  /\ UNCHANGED << jobs, view, active_job, UPLOADED_FILE, RUNPOD_OBJECT_KEY,
                  bootstrapped, pc, out, clock, uploads, polls, last, call >>

RetryNext == RetryPoll

RetrySpec == InitRetry /\ [][RetryNext]_vars

\* the step is a poll that succeeded and reported a terminal status
TerminalPollStep ==
  /\ result'.n = result.n + 1
  /\ result'.resp.fail = "none"
  /\ result'.resp.status \in {<<"COMPLETED">>, <<"FAILED">>, <<"CANCELLED">>}

\* C28: while saved_paths of the job is unset, every poll that succeeds and
\* reports a terminal status calls the persister; when that call fails,
\* saved_paths stays unset (so the next such poll calls it again), and when
\* its writes succeed, saved_paths is set.
C28_PersistenceIsRetried ==
  [][(TerminalPollStep /\ ~Truthy(result.jobs[call.job_id].saved_paths))
       => /\ result'.persister \in {"raised", "returned"}
          /\ result'.persister = "raised"
               => ~Truthy(result'.jobs[call.job_id].saved_paths)
          /\ result'.persister = "returned"
               => Truthy(result'.jobs[call.job_id].saved_paths)]_vars

\* the persister failed on an earlier terminal poll, was called again on the
\* third poll and set saved_paths to the four locations
C28_Witness ==
  /\ result.fn = "polls"
  /\ "failed" \in DOMAIN result
  /\ result.failed
  /\ result.n = 3
  /\ result.persister = "returned"
  /\ MappingSize(result.jobs[call.job_id].saved_paths) = 4
  /\ MappingKeys(result.jobs[call.job_id].saved_paths) \subseteq DOMAIN store

\* C29: feedback saved for two different (filename, username) pairs is stored
\* under two different keys, so the later one does not replace the earlier.
C29_DistinctPairsDistinctKeys ==
  (result.fn = "feedback_form" /\ "uris" \in DOMAIN result)
    => \A i \in 1..Len(result.users), m \in 1..Len(result.users) :
         result.users[i] # result.users[m] => result.uris[i] # result.uris[m]

(***************************************************************************)
(* The storage-cleanup tool, src/clear_storage_v5.py.  The script runs     *)
(* from top to bottom once per interaction; one run is one action.  The    *)
(* bucket is a set of keys; the sizes of the objects, which the script     *)
(* only displays, are left out.  result holds the bucket, the session      *)
(* state, what the last run rendered, the inputs of the last run and the   *)
(* delete requests that run sent.                                          *)
(***************************************************************************)
\* line 135
CHUNK == 1000

DELETE == <<"D", "E", "L", "E", "T", "E">>

\* str.upper(), on the characters the confirmation phrases are made of
UpperChar(c) ==
  CASE c = "d" -> "D" [] c = "e" -> "E" [] c = "l" -> "L" [] c = "t" -> "T"
    [] c = "a" -> "A" [] c = "b" -> "B" [] OTHER -> c
Upper(s) == [i \in 1..Len(s) |-> UpperChar(s[i])]

\* a confirmation test that accepts every phrase that is not blank
Confirmed_when_not_blank(confirm_phrase) == StripSpace(confirm_phrase) # <<>>

\* line 452, negated: confirm_phrase.strip().upper() != "DELETE"
Confirmed(confirm_phrase) == Upper(StripSpace(confirm_phrase)) = DELETE

\* the section of the selectbox (line 319), one per behaviour, and the keys
\* an object of the bucket can have
CleanupSections == { <<"u">>, <<"f">> }
CleanupKeys == { <<"u", "/", "A">>, <<"u", "/", "b">>, <<"f", "/", "b">> }
CleanupPhrases ==
  { DELETE, <<" ", "d", "e", "L", "e", "t", "e", " ">>, <<"D", "E", "L", "E", "T">>,
    <<"D", "E", " ", "L", "E", "T", "E">>, <<>> }

\* LastModified of an object, in days, and `now` of line 343
LastModified(key) ==
  CASE key = <<"u", "/", "A">> -> 3 [] key = <<"u", "/", "b">> -> 1 [] OTHER -> 2
CleanupNow == 4

\* the sidebar filters (lines 330-331) and whether the listing succeeds
CleanupViews ==
  { [contains |-> <<>>, older_than_days |-> 0, listOk |-> TRUE],
    [contains |-> <<"a">>, older_than_days |-> 0, listOk |-> TRUE],
    [contains |-> <<>>, older_than_days |-> 2, listOk |-> TRUE],
    [contains |-> <<>>, older_than_days |-> 0, listOk |-> FALSE] }

\* needle in hay
Contains(hay, needle) ==
  \E i \in 0..(Len(hay) - Len(needle)) : SubSeq(hay, i + 1, i + Len(needle)) = needle

\* lines 346-347
_match_name(key, needle) == Contains(Lower(key), Lower(needle))

\* lines 90-109: the keys under the prefix, none when the listing fails
list_objects(bucket, prefix, listOk) ==
  IF listOk
  THEN {k \in bucket : StartsWith(k, prefix) /\ ~EndsWith(k, <<"/">>)}
  ELSE {}

\* lines 362-374: the rows the filters keep
FilteredRows(objects, filters) ==
  {k \in objects :
     /\ ~(filters.contains # <<>> /\ ~_match_name(k, filters.contains))
     /\ ~(filters.older_than_days > 0
            /\ LastModified(k) > CleanupNow - filters.older_than_days)}

\* line 382: sort_values(by="last_modified", ascending=False)
RECURSIVE SortByModified(_)
SortByModified(S) ==
  IF S = {} THEN <<>>
  ELSE <<CHOOSE k \in S : \A o \in S : LastModified(o) <= LastModified(k)>>
         \o SortByModified(S \ {CHOOSE k \in S :
                                  \A o \in S : LastModified(o) <= LastModified(k)})

\* lines 342, 359-382: the keys of the rows of the table, in display order
RowsOf(bucket, section, filters) ==
  SortByModified(FilteredRows(list_objects(bucket, section \o <<"/">>, filters.listOk),
                              filters))

\* lines 118-124: the selection list cut or padded to n_rows
Resized(prev, n_rows) ==
  IF Len(prev) < n_rows
  THEN prev \o [i \in 1..(n_rows - Len(prev)) |-> FALSE]
  ELSE SubSeq(prev, 1, n_rows)

\* lines 112-124; ss is st.session_state
_ensure_select_state(ss, n_rows) ==
  IF "select_col" \notin DOMAIN ss
  THEN ("select_col" :> [i \in 1..n_rows |-> FALSE]) @@ ss
  ELSE ("select_col" :> Resized(ss.select_col, n_rows)) @@ ss

\* line 394
AllSelectedNow(ss) ==
  Len(ss.select_col) > 0 /\ \A i \in 1..Len(ss.select_col) : ss.select_col[i]

\* line 400: the checkbox shows its default the first time it is drawn and
\* what the user left it at afterwards
SelAllValues(ss) ==
  IF "selall_prev" \in DOMAIN ss THEN BOOLEAN ELSE {AllSelectedNow(ss)}

\* lines 403-406
AfterSelectAll(ss, sel_all) ==
  IF "selall_prev" \notin DOMAIN ss \/ ss.selall_prev # sel_all
  THEN ("selall_prev" :> sel_all)
         @@ ("select_col" :> [i \in 1..Len(ss.select_col) |-> sel_all]) @@ ss
  ELSE ss

\* lines 412-424: the select column the editor returns: the column it was
\* given the first time the table is drawn, any ticks of the user afterwards
EditedColumns(ss) ==
  IF result.table THEN [1..Len(ss.select_col) -> BOOLEAN] ELSE {ss.select_col}

\* lines 432-433: the keys of the rows whose box is ticked, in row order
RECURSIVE SelectedFrom(_, _, _)
SelectedFrom(rows, select, i) ==
  IF i > Len(rows) THEN <<>>
  ELSE (IF select[i] THEN <<rows[i]>> ELSE <<>>) \o SelectedFrom(rows, select, i + 1)

ToSet(s) == {s[i] : i \in 1..Len(s)}

\* what the object store does with a delete request: the bulk call raises or
\* answers, and a key is deleted ("ok"), reported as missing, refused in the
\* bulk answer but deleted when retried, or refused every time
Dispositions == {"ok", "NoSuchKey", "retry ok", "AccessDenied"}
Servers(keys) ==
  [bulk : {"ok", "raise"}, on : [ToSet(keys) -> Dispositions]]

DeleteObjects(chunk) == [op |-> "delete_objects", keys |-> chunk]
DeleteObject(k) == [op |-> "delete_object", keys |-> <<k>>]
EachDeleted(ks) == [i \in 1..Len(ks) |-> DeleteObject(ks[i])]
Refused(ks, server) ==
  SelectSeq(ks, LAMBDA k : server.on[k] = "AccessDenied")
ErrorsOf(ks) == [i \in 1..Len(ks) |-> [key |-> ks[i], code |-> "AccessDenied"]]

\* lines 138-182, one chunk.  The bulk request asks for a quiet answer, which
\* lists no deleted key (line 142), so only the keys of its Errors count.
DeleteChunk(acc, chunk, server) ==
  IF server.bulk = "raise"
  THEN [bucket |-> acc.bucket \ {k \in ToSet(chunk) : server.on[k] \in {"ok", "retry ok"}},
        deleted |-> acc.deleted + Len(chunk) - Len(Refused(chunk, server)),
        errors |-> acc.errors \o ErrorsOf(Refused(chunk, server)),
        requests |-> acc.requests \o <<DeleteObjects(chunk)>> \o EachDeleted(chunk)]
  ELSE [bucket |-> acc.bucket \ {k \in ToSet(chunk) : server.on[k] \in {"ok", "retry ok"}},
        deleted |-> acc.deleted
                      + Len(SelectSeq(chunk, LAMBDA k : server.on[k] \in {"NoSuchKey", "retry ok"})),
        errors |-> acc.errors \o ErrorsOf(Refused(chunk, server)),
        requests |-> acc.requests \o <<DeleteObjects(chunk)>>
                       \o EachDeleted(SelectSeq(chunk,
                            LAMBDA k : server.on[k] \in {"retry ok", "AccessDenied"}))]

\* lines 137-138: for i in range(0, len(keys), CHUNK)
RECURSIVE DeleteChunks(_, _, _, _)
DeleteChunks(acc, keys, i, server) ==
  IF i > Len(keys) THEN acc
  ELSE DeleteChunks(DeleteChunk(acc,
                                SubSeq(keys, i, IF i + CHUNK - 1 < Len(keys)
                                                THEN i + CHUNK - 1 ELSE Len(keys)),
                                server),
                    keys, i + CHUNK, server)

\* lines 127-183
delete_keys_verbose(bucket, keys, server) ==
  DeleteChunks([bucket |-> bucket, deleted |-> 0, errors |-> <<>>, requests |-> <<>>],
               keys, 1, server)

\* lines 193-225: the versions of the keys that have some are deleted in
\* one more bulk request; listed: the keys whose versions the store lists
delete_all_versions(keys, listed) ==
  IF SelectSeq(keys, LAMBDA k : k \in listed) = <<>> THEN <<>>
  ELSE <<[op |-> "delete_object_versions",
          keys |-> SelectSeq(keys, LAMBDA k : k \in listed)]>>

\* lines 459-467
WithVersions(d, keys, versions_too, listed) ==
  IF versions_too
  THEN [d EXCEPT !.requests = @ \o delete_all_versions(keys, listed)]
  ELSE d

InitCleanup ==
  /\ SessionStart
  /\ store = EmptyStore
  /\ call \in {[fn |-> "cleanup", section |-> sec] : sec \in CleanupSections}
  /\ result = [fn |-> "cleanup", bucket |-> CleanupKeys, session_state |-> <<>>,
               table |-> FALSE, enabled |-> FALSE, rows |-> <<>>, select |-> <<>>,
               selected_keys |-> <<>>, clicked |-> "none", confirm_phrase |-> <<>>,
               dry_run |-> FALSE, requests |-> <<>>, shown |-> "none"]

\* the end of a run that drew the table
Rendered(rows, ss, selected_keys, confirm_phrase, dry_run, clicked, shown) ==
  result' = [fn |-> "cleanup", bucket |-> result.bucket, session_state |-> ss,
             table |-> TRUE, enabled |-> (selected_keys # <<>>), rows |-> rows,
             select |-> ss.select_col, selected_keys |-> selected_keys,
             clicked |-> clicked, confirm_phrase |-> confirm_phrase,
             dry_run |-> dry_run, requests |-> <<>>, shown |-> shown]

\* lines 458-475: the end of a run that deleted; d is what the deletion did
Deleted(rows, ss, selected_keys, confirm_phrase, d) ==
  result' = [fn |-> "cleanup", bucket |-> d.bucket, session_state |-> ss,
             table |-> TRUE, enabled |-> (selected_keys # <<>>), rows |-> rows,
             select |-> ss.select_col, selected_keys |-> selected_keys,
             clicked |-> "delete", confirm_phrase |-> confirm_phrase,
             dry_run |-> FALSE, requests |-> d.requests, shown |-> "success"]

\* lines 442-475: the two buttons
Buttons(rows, ss, selected_keys, confirm_phrase, dry_run, clicked) ==
  IF clicked = "refresh"
  THEN Rendered(rows, ss, selected_keys, confirm_phrase, dry_run, clicked, "rerun")
  ELSE IF clicked = "delete"
  THEN IF ~Confirmed(confirm_phrase)
       THEN Rendered(rows, ss, selected_keys, confirm_phrase, dry_run, clicked,
                     "error: type DELETE")
       ELSE IF dry_run
       THEN Rendered(rows, ss, selected_keys, confirm_phrase, dry_run, clicked,
                     "dry run")
       ELSE \E server \in Servers(selected_keys), versions_too \in BOOLEAN,
               listed \in SUBSET ToSet(selected_keys) :
              Deleted(rows, ss, selected_keys, confirm_phrase,
                      WithVersions(delete_keys_verbose(result.bucket, selected_keys,
                                                       server),
                                   selected_keys, versions_too, listed))
  ELSE Rendered(rows, ss, selected_keys, confirm_phrase, dry_run, clicked, "none")

\* lines 409-434: the table and the selection
Table(rows, ss, confirm_phrase, dry_run, clicked) ==
  \E edited \in EditedColumns(ss) :
    Buttons(rows, ("select_col" :> edited) @@ ss, SelectedFrom(rows, edited, 1),
            confirm_phrase, dry_run, clicked)

\* lines 391-406
SelectAll(rows, ss, confirm_phrase, dry_run, clicked) ==
  \E sel_all \in SelAllValues(ss) :
    Table(rows, AfterSelectAll(ss, sel_all), confirm_phrase, dry_run, clicked)

\* lines 476-477: no row matched, nothing but a notice is drawn
NoMatchingItems(confirm_phrase, dry_run) ==
  result' = [result EXCEPT !.table = FALSE, !.enabled = FALSE, !.rows = <<>>,
                           !.select = <<>>, !.selected_keys = <<>>,
                           !.clicked = "none", !.confirm_phrase = confirm_phrase,
                           !.dry_run = dry_run, !.requests = <<>>,
                           !.shown = "No matching items"]

\* lines 357-477
Browse(rows, confirm_phrase, dry_run, clicked) ==
  IF rows = <<>> THEN NoMatchingItems(confirm_phrase, dry_run)
  ELSE SelectAll(rows, _ensure_select_state(result.session_state, Len(rows)),
                 confirm_phrase, dry_run, clicked)

\* a button can be clicked when the run before drew it, the delete button
\* only when it was drawn enabled (line 444)
Clicks ==
  {"none"} \cup (IF result.table THEN {"refresh"} ELSE {})
           \cup (IF result.enabled THEN {"delete"} ELSE {})

\* one run of the script
CleanupRun ==
  /\ call.fn = "cleanup"
  /\ \E filters \in CleanupViews, confirm_phrase \in CleanupPhrases,
        dry_run \in BOOLEAN, clicked \in Clicks :
       Browse(RowsOf(result.bucket, call.section, filters), confirm_phrase, dry_run,
              clicked)
  /\ UNCHANGED << jobs, store, view, active_job, UPLOADED_FILE, RUNPOD_OBJECT_KEY,
                  bootstrapped, pc, out, clock, uploads, polls, last, call >>

\* between two runs an object is written to the bucket by the application
ObjectArrives ==
  /\ call.fn = "cleanup"
  /\ \E k \in CleanupKeys \ result.bucket :
       result' = [result EXCEPT !.bucket = @ \cup {k}]
  /\ UNCHANGED << jobs, store, view, active_job, UPLOADED_FILE, RUNPOD_OBJECT_KEY,
                  bootstrapped, pc, out, clock, uploads, polls, last, call >>

CleanupNext == CleanupRun \/ ObjectArrives

CleanupSpec == InitCleanup /\ [][CleanupNext]_vars

\* the phrase is DELETE between blanks, each letter in either case
SameLetter(c, d) ==
  c = d \/ <<c, d>> \in {<<"d", "D">>, <<"e", "E">>, <<"l", "L">>, <<"t", "T">>}
SaysDelete(p) ==
  \E a \in 0..Len(p) :
    /\ a + Len(DELETE) <= Len(p)
    /\ \A i \in 1..Len(p) :
         IF i > a /\ i <= a + Len(DELETE)
         THEN SameLetter(p[i], DELETE[i - a])
         ELSE p[i] = " "

\* key is the key of a row that was ticked in the last run
KeyOfSelectedRow(key) ==
  \E i \in 1..Len(result.rows) : result.select[i] /\ result.rows[i] = key

\* C30: a run of the cleanup tool sends a delete request to the object store
\* only if the delete button was clicked in that run with at least one row
\* ticked, the confirmation text is DELETE up to case and surrounding blanks
\* and dry run is off; and every key of every request is the key of a ticked
\* row.
C30_DeleteOnlyWhenConfirmed ==
  (result.fn = "cleanup" /\ result.requests # <<>>)
    => /\ result.clicked = "delete"
       /\ \E i \in 1..Len(result.rows) : result.select[i]
       /\ SaysDelete(result.confirm_phrase)
       /\ ~result.dry_run
       /\ \A j \in 1..Len(result.requests) :
            \A m \in 1..Len(result.requests[j].keys) :
              KeyOfSelectedRow(result.requests[j].keys[m])

\* two rows were shown, one of them ticked, the phrase was typed in mixed
\* case between blanks, and the ticked key was deleted by a bulk request and
\* a retry while the other row's object stayed
C30_Witness ==
  /\ result.fn = "cleanup"
  /\ Len(result.rows) = 2
  /\ result.select = <<FALSE, TRUE>>
  /\ result.confirm_phrase = <<" ", "d", "e", "L", "e", "t", "e", " ">>
  /\ Len(result.requests) = 2
  /\ result.rows[2] \notin result.bucket
  /\ result.rows[1] \in result.bucket

====
